---- MODULE Spec2Model ----
(***************************************************************************)
(* Session / entitlement logic of the NexaNeuron front end.                *)
(*                                                                         *)
(* The model follows src/App.tsx (auth callback, coin and premium          *)
(* handlers, what the shell renders), the ImageGenerator panel             *)
(* (src/unnamed/part_004), the VideoGenerator panel                        *)
(* (src/components/VideoGenerator.tsx), the PremiumPage                    *)
(* (src/components/TextToSpeech.tsx) and the PaymentModal                  *)
(* (src/components/PaymentModal.tsx).                                      *)
(*                                                                         *)
(* Every `await` of the source is a step boundary: an asynchronous handler *)
(* is a little process whose record holds its position (pc) and the values *)
(* its closure captured when it was created.  A React handler closes over  *)
(* the props and state of the render in which it was created, so a handler *)
(* that resumes after an await still sees the `user` of that render; the   *)
(* field `snap` of a process record is that captured `user`.               *)
(***************************************************************************)
EXTENDS Integers, Sequences, FiniteSets, TLC

(***************************************************************************)
(* Program constants.                                                      *)
(***************************************************************************)
IMAGE_COST == 5
VIDEO_COST == 20
GUEST_START_COINS == 10
AUTH_START_COINS == 100

(***************************************************************************)
(* Bounds of the model.                                                    *)
(***************************************************************************)
\* paid operations (handleSubmit invocations) that may be in flight at once
MaxOps == 2
\* auth-callback invocations that may be suspended on remote I/O at once
MaxRes == 1
\* payment confirmations / premium unlocks that may be in flight at once
MaxUnlocks == 1
\* charges in one behaviour: no paid operation starts once the charges
\* applied and the operations in flight add up to it
MaxPaid == 2
\* asynchronous handlers of any kind that may be suspended at once
MaxInFlight == 2
\* guest profiles synthesized in one behaviour (each reads a later Date.now())
MaxNow == 1

\* identities the identity provider can report (0 stands for "no user")
Uids == {1}

(***************************************************************************)
(* Optional values: `undefined` / an absent JSON key is <<>>, a present    *)
(* value v is <<v>>.  `null` strings are the string "null".                *)
(***************************************************************************)
Undefined == <<>>
Some(v) == <<v>>
NullStr == "null"

\* App's `user` state before the first setUser (useState(null))
NoUser == [uid |-> "null"]
\* localStorage.getItem('guestProfile') when the key is absent
NoItem == [uid |-> "absent"]
\* a user document that does not exist (userDoc.exists() is false)
NoDoc == [exists |-> FALSE]

\* user.coins ?? 0
Coins(u) == IF u.coins = Undefined THEN 0 ELSE u.coins[1]
\* user?.isPremium ?? false
IsPremium(u) == IF u.isPremium = Undefined THEN FALSE ELSE u.isPremium[1]

\* hasEnoughCoins of both panels, for a non-null user and a cost
BadHasEnoughCoins(u, cost) == Coins(u) >= cost
HasEnoughCoins(u, cost) == IsPremium(u) \/ Coins(u) >= cost

\* the fixed price of a paid operation
CostOf(kind) == IF kind = "image" THEN IMAGE_COST ELSE VIDEO_COST

\* what the identity provider reports for an identity
DisplayNameOf(n) == "name"
EmailOf(n) == "email"
PhotoOf(n) == "photo"

\* the guest profile synthesized by the auth callback at time t
BadNewGuestProfile(t) ==
  [uid |-> [kind |-> "guest", n |-> t], displayName |-> "Guest",
   email |-> NullStr, photoURL |-> NullStr, coins |-> Some(AUTH_START_COINS),
   isGuest |-> TRUE, isPremium |-> Some(FALSE)]
NewGuestProfile(t) ==
  [uid |-> [kind |-> "guest", n |-> t], displayName |-> "Guest",
   email |-> NullStr, photoURL |-> NullStr, coins |-> Some(GUEST_START_COINS),
   isGuest |-> TRUE, isPremium |-> Some(FALSE)]

\* the profile the auth callback activates for identity n from userData d
BadAuthProfile(n, d) ==
  [uid |-> [kind |-> "auth", n |-> n], displayName |-> DisplayNameOf(n),
   email |-> EmailOf(n), photoURL |-> PhotoOf(n),
   coins |-> Some(AUTH_START_COINS), isGuest |-> FALSE,
   isPremium |-> d.isPremium]
AuthProfile(n, d) ==
  [uid |-> [kind |-> "auth", n |-> n], displayName |-> DisplayNameOf(n),
   email |-> EmailOf(n), photoURL |-> PhotoOf(n), coins |-> d.coins,
   isGuest |-> FALSE, isPremium |-> d.isPremium]

\* new Date(): the value is written to lastLogin and never read
NewDate == "date"

\* the document the auth callback creates for identity n
NewUserDoc(n) ==
  [exists |-> TRUE, displayName |-> DisplayNameOf(n), email |-> EmailOf(n),
   photoURL |-> PhotoOf(n), lastLogin |-> NewDate,
   coins |-> Some(AUTH_START_COINS), isPremium |-> Some(FALSE)]

\* a document as an earlier version of the app or another tool left it
OldDoc(n, c, p) ==
  [exists |-> TRUE, displayName |-> DisplayNameOf(n), email |-> EmailOf(n),
   photoURL |-> PhotoOf(n), lastLogin |-> "earlier date", coins |-> c,
   isPremium |-> p]

\* user documents the store may hold when the app is loaded
InitDocs(n) ==
  {NoDoc,
   OldDoc(n, Undefined, Undefined),
   OldDoc(n, Some(25), Undefined),
   OldDoc(n, Undefined, Some(TRUE))}

\* guest records local storage may hold when the app is loaded
InitItems ==
  {NoItem, [NewGuestProfile(0) EXCEPT !.coins = Some(5)]}


(***************************************************************************)
(* State.                                                                  *)
(***************************************************************************)
VARIABLES
  authUser,          \* identity provider: the signed-in identity, 0 if none
  subscribed,        \* onAuthStateChanged has delivered its first event
  remote,            \* document store: users/<uid>
  local,             \* localStorage item 'guestProfile'
  now,               \* the clock behind Date.now() and new Date()
  user,              \* App: useState<UserProfile | null>
  isAppStarted,      \* App: landing page left
  activeFeature,     \* App: selected feature
  isPremiumPageOpen, \* App
  selectedPlan,      \* PremiumPage: a PaymentModal is shown
  isProcessing,      \* PaymentModal
  paymentSuccess,    \* PaymentModal
  ops,               \* handleSubmit invocations of the paid panels
  res,               \* suspended invocations of the auth callback
  unlocks,           \* payment timers and handlePremiumUnlocked invocations
  panelError,        \* `error` state of the mounted paid panel
  event,             \* what the latest step did besides changing the state
  paid,              \* number of charges applied by handleCoinsUpdate
  expected,          \* resolved balance minus the prices charged since
  serial,            \* no handler has overlapped another since resolution
  fx,                \* an invocation of GeminiService._processVideoToFrames
  chat,              \* the Chatbot panel, its stored histories and requests
  agent,             \* the LiveAgent panel and the resources it started
  gen,               \* an invocation of GeminiService.generateVideo
  enc,               \* a buffer of microphone samples and its encoding
  editor             \* the VideoEditor panel and its handleSubmit invocations

vars == <<authUser, subscribed, remote, local, now, user, isAppStarted,
          activeFeature, isPremiumPageOpen, selectedPlan, isProcessing,
          paymentSuccess, ops, res, unlocks, panelError, event, paid,
          expected, serial>>

authVars == <<authUser, subscribed>>
shellVars == <<isAppStarted, activeFeature, isPremiumPageOpen>>
modalVars == <<selectedPlan, isProcessing, paymentSuccess>>
ledgerVars == <<expected, serial>>

\* the state of the components modelled beside the session logic
otherVars == <<fx, chat, agent, gen, enc, editor>>
allVars == <<vars, otherVars>>

Features == {"chat", "image", "video"}

IdleOp == [pc |-> "idle", kind |-> "none", snap |-> NoUser, mounted |-> FALSE,
           awaiting |-> {}]
IdleRes == [pc |-> "idle", cu |-> 0, setCoins |-> FALSE, setPremium |-> FALSE]
IdleUnlock == [pc |-> "idle", snap |-> NoUser, mounted |-> FALSE]

OpIds == 1..MaxOps
ResIds == 1..MaxRes
UnlockIds == 1..MaxUnlocks

\* the lowest free slot of a table of process records
FreeSlot(tab) == CHOOSE i \in DOMAIN tab :
                   /\ tab[i].pc = "idle"
                   /\ \A j \in DOMAIN tab : tab[j].pc = "idle" => i <= j
Busy(tab) == {i \in DOMAIN tab : tab[i].pc # "idle"}
HasFree(tab) ==
  /\ \E i \in DOMAIN tab : tab[i].pc = "idle"
  /\ Cardinality(Busy(ops)) + Cardinality(Busy(res))
       + Cardinality(Busy(unlocks)) < MaxInFlight

\* a handler holding a captured `user` is suspended
InFlight == \/ \E i \in OpIds : ops[i].pc # "idle"
            \/ \E i \in UnlockIds : unlocks[i].pc \in {"timer", "updateDoc"}

AppInit ==
  /\ authUser \in Uids \cup {0}
  /\ subscribed = FALSE
  /\ remote \in [Uids -> UNION {InitDocs(n) : n \in Uids}]
  /\ local \in InitItems
  /\ now = 0
  /\ user = NoUser
  /\ isAppStarted = FALSE
  /\ activeFeature = "chat"
  /\ isPremiumPageOpen = FALSE
  /\ selectedPlan = FALSE
  /\ isProcessing = FALSE
  /\ paymentSuccess = FALSE
  /\ ops = [i \in OpIds |-> IdleOp]
  /\ res = [i \in ResIds |-> IdleRes]
  /\ unlocks = [i \in UnlockIds |-> IdleUnlock]
  /\ panelError = ""
  /\ event = ""
  /\ paid = 0
  /\ expected = 0
  /\ serial = FALSE

(***************************************************************************)
(* What the shell renders (App.tsx 209-281).                               *)
(***************************************************************************)
BadMainUI == isAppStarted /\ ~isPremiumPageOpen
MainUI == isAppStarted /\ user # NoUser /\ ~isPremiumPageOpen
PremiumUI == isAppStarted /\ isPremiumPageOpen /\ user # NoUser
PanelMounted(kind) == MainUI /\ activeFeature = kind

\* the mounted paid panel goes away: its state is lost, its handlers run on
UnmountPanel ==
  /\ ops' = [i \in OpIds |-> [ops[i] EXCEPT !.mounted = FALSE]]
  /\ panelError' = ""

(***************************************************************************)
(* setUser by the auth callback; the ledger restarts with the profile.     *)
(***************************************************************************)
Activate(u) ==
  /\ user' = u
  /\ serial' = ~InFlight
  /\ expected' = IF ~InFlight THEN Coins(u) ELSE 0

(***************************************************************************)
(* onAuthStateChanged callback up to its first await (App.tsx 70-74) or,   *)
(* without an identity, to its end (App.tsx 110-127).                      *)
(***************************************************************************)
AuthCallback(currentUser) ==
  IF currentUser # 0
  THEN /\ HasFree(res)
       /\ local' = NoItem
       /\ res' = [res EXCEPT ![FreeSlot(res)] =
                    [IdleRes EXCEPT !.pc = "getDoc", !.cu = currentUser]]
       /\ UNCHANGED <<user, now, ledgerVars>>
  ELSE /\ IF local # NoItem
          THEN /\ Activate(local)
               /\ UNCHANGED local
               /\ UNCHANGED now
          ELSE /\ now < MaxNow
               /\ now' = now + 1
               /\ local' = NewGuestProfile(now')
               /\ Activate(NewGuestProfile(now'))
       /\ UNCHANGED res

\* the identity provider delivers the persisted auth state after subscription
AuthInit ==
  /\ ~subscribed
  /\ subscribed' = TRUE
  /\ AuthCallback(authUser)
  /\ UNCHANGED <<authUser, remote, shellVars, modalVars, ops, unlocks,
                 panelError, paid>>

\* await getDoc(userRef) returns (App.tsx 74-98, up to the next await)
GetDocOk(i) ==
  /\ res[i].pc = "getDoc"
  /\ LET d == remote[res[i].cu] IN
       res' = [res EXCEPT ![i] =
                 IF d.exists
                 THEN [pc |-> "updateDoc", cu |-> res[i].cu,
                       setCoins |-> (d.coins = Undefined),
                       setPremium |-> (d.isPremium = Undefined)]
                 ELSE [pc |-> "setDoc", cu |-> res[i].cu, setCoins |-> FALSE,
                       setPremium |-> FALSE]]
  /\ UNCHANGED <<authVars, remote, local, now, user, shellVars, modalVars,
                 ops, unlocks, panelError, paid, ledgerVars>>

\* the document after updateDoc(userRef, updates) (App.tsx 79-86)
BadBackfilledDoc(d, r) ==
  [d EXCEPT !.lastLogin = NewDate,
            !.coins = Some(AUTH_START_COINS),
            !.isPremium = IF r.setPremium THEN Some(FALSE) ELSE @]
BackfilledDoc(d, r) ==
  [d EXCEPT !.lastLogin = NewDate,
            !.coins = IF r.setCoins THEN Some(AUTH_START_COINS) ELSE @,
            !.isPremium = IF r.setPremium THEN Some(FALSE) ELSE @]

\* await updateDoc(userRef, updates) returns (App.tsx 86)
UpdateDocOk(i) ==
  /\ res[i].pc = "updateDoc"
  /\ remote[res[i].cu].exists
  /\ remote' = [remote EXCEPT ![res[i].cu] = BackfilledDoc(@, res[i])]
  /\ res' = [res EXCEPT ![i].pc = "reGetDoc"]
  /\ UNCHANGED <<authVars, local, now, user, shellVars, modalVars, ops,
                 unlocks, panelError, paid, ledgerVars>>

\* the second getDoc returns and the profile becomes active (App.tsx 87-108)
ReGetDocOk(i) ==
  /\ res[i].pc = "reGetDoc"
  /\ remote[res[i].cu].exists
  /\ Activate(AuthProfile(res[i].cu, remote[res[i].cu]))
  /\ res' = [res EXCEPT ![i] = IdleRes]
  /\ UNCHANGED <<authVars, remote, local, now, shellVars, modalVars, ops,
                 unlocks, panelError, paid>>

\* await setDoc(userRef, userData) returns and the profile becomes active
SetDocOk(i) ==
  /\ res[i].pc = "setDoc"
  /\ remote' = [remote EXCEPT ![res[i].cu] = NewUserDoc(res[i].cu)]
  /\ Activate(AuthProfile(res[i].cu, NewUserDoc(res[i].cu)))
  /\ res' = [res EXCEPT ![i] = IdleRes]
  /\ UNCHANGED <<authVars, local, now, shellVars, modalVars, ops, unlocks,
                 panelError, paid>>

\* a document read or write of the callback rejects: the async callback has
\* no try/catch, its promise rejects and nothing after the await runs
ResolveRejects(i) ==
  /\ res[i].pc \in {"getDoc", "updateDoc", "reGetDoc", "setDoc"}
  /\ res' = [res EXCEPT ![i] = IdleRes]
  /\ event' = "auth callback rejected"
  /\ UNCHANGED <<authVars, remote, local, now, user, shellVars, modalVars,
                 ops, unlocks, panelError, paid, ledgerVars>>

(***************************************************************************)
(* Sign-in and sign-out (App.tsx 132-146), offered by the Profile menu of  *)
(* the header (Profile.tsx 57-113).  The identity provider runs the auth   *)
(* callback when the signed-in identity changes.                           *)
(***************************************************************************)
SignInOk(n) ==
  /\ MainUI /\ subscribed
  /\ user.isGuest
  /\ authUser' = n
  /\ IF authUser # n
     THEN AuthCallback(n)
     ELSE UNCHANGED <<local, res, user, now, ledgerVars>>
  /\ UNCHANGED <<subscribed, remote, shellVars, modalVars, ops, unlocks,
                 panelError, paid>>

BadSignInFails ==
  /\ MainUI /\ subscribed
  /\ user.isGuest
  /\ event' = "Authentication error logged"
  /\ local' = NoItem
  /\ UNCHANGED <<authVars, remote, now, user, shellVars, modalVars,
                 ops, res, unlocks, panelError, paid, ledgerVars>>
SignInFails ==
  /\ MainUI /\ subscribed
  /\ user.isGuest
  /\ event' = "Authentication error logged"
  /\ UNCHANGED <<authVars, remote, local, now, user, shellVars, modalVars,
                 ops, res, unlocks, panelError, paid, ledgerVars>>

SignOutOk ==
  /\ MainUI /\ subscribed
  /\ ~user.isGuest
  /\ authUser' = 0
  /\ IF authUser # 0
     THEN AuthCallback(0)
     ELSE UNCHANGED <<local, res, user, now, ledgerVars>>
  /\ UNCHANGED <<subscribed, remote, shellVars, modalVars, ops, unlocks,
                 panelError, paid>>

\* the identity provider reports a change of the signed-in identity that
\* was not made through this page (the state is shared by the tabs of the
\* browser): the auth callback runs as for any other change
AuthChangedElsewhere(n) ==
  /\ subscribed
  /\ n # authUser
  /\ authUser' = n
  /\ AuthCallback(n)
  /\ UNCHANGED <<subscribed, remote, shellVars, modalVars, ops, unlocks,
                 panelError, paid>>

SignOutFails ==
  /\ MainUI /\ subscribed
  /\ ~user.isGuest
  /\ event' = "Sign out error logged"
  /\ UNCHANGED <<authVars, remote, local, now, user, shellVars, modalVars,
                 ops, res, unlocks, panelError, paid, ledgerVars>>

(***************************************************************************)
(* Navigation of the shell.                                                *)
(***************************************************************************)
\* LandingPage onStart (App.tsx 209-211)
StartApp ==
  /\ ~isAppStarted
  /\ isAppStarted' = TRUE
  /\ UNCHANGED <<authVars, remote, local, now, user, activeFeature,
                 isPremiumPageOpen, modalVars, ops, res, unlocks, panelError, paid, ledgerVars>>

\* handleSelectFeature (App.tsx 176-179): another panel replaces the mounted one
SelectFeature(f) ==
  /\ MainUI
  /\ f # activeFeature
  /\ activeFeature' = f
  /\ UnmountPanel
  /\ UNCHANGED <<authVars, remote, local, now, user, isAppStarted,
                 isPremiumPageOpen, modalVars, res, unlocks, paid,
                 ledgerVars>>

\* the coin button of the header (App.tsx 250-259): PremiumPage replaces the shell
OpenPremiumPage ==
  /\ MainUI
  /\ isPremiumPageOpen' = TRUE
  /\ UnmountPanel
  /\ UNCHANGED <<authVars, remote, local, now, user, isAppStarted,
                 activeFeature, modalVars, res, unlocks, paid,
                 ledgerVars>>

\* PremiumPage (and its PaymentModal) goes away: modal state is lost, pending
\* timers stay scheduled
UnmountModal ==
  /\ selectedPlan' = FALSE
  /\ isProcessing' = FALSE
  /\ paymentSuccess' = FALSE
  /\ unlocks' = [i \in UnlockIds |-> [unlocks[i] EXCEPT !.mounted = FALSE]]

\* the back button of PremiumPage (App.tsx 214), not covered by the modal
ClosePremiumPage ==
  /\ PremiumUI
  /\ ~selectedPlan
  /\ isPremiumPageOpen' = FALSE
  /\ UNCHANGED <<authVars, remote, local, now, user, isAppStarted,
                 activeFeature, modalVars, ops, res, unlocks, panelError, paid, ledgerVars>>

(***************************************************************************)
(* A handler that captures `user` starts: the ledger is serial only while  *)
(* no other such handler is suspended.                                     *)
(***************************************************************************)
StartHandler ==
  /\ serial' = (serial /\ ~InFlight)
  /\ expected' = IF serial /\ ~InFlight THEN expected ELSE 0

\* a charge was applied by handleCoinsUpdate
Charge(cost) ==
  /\ paid' = paid + 1
  /\ serial' = serial
  /\ expected' = IF serial THEN expected - cost ELSE 0

(***************************************************************************)
(* handleCoinsUpdate (App.tsx 148-156), as the closure that captured u.    *)
(***************************************************************************)
BadCoinsUpdated(u, newBalance) == [u EXCEPT !.coins = Some(newBalance - 1)]
CoinsUpdated(u, newBalance) == [u EXCEPT !.coins = Some(newBalance)]

HandleCoinsUpdate(u, newBalance) ==
  /\ user' = CoinsUpdated(u, newBalance)
  /\ local' = IF u.isGuest THEN CoinsUpdated(u, newBalance) ELSE local

\* newBalance of the panels (part_004 49, VideoGenerator.tsx 177)
NewBalance(u, kind) == Coins(u) - CostOf(kind)

(***************************************************************************)
(* The paid panels: ImageGenerator.handleSubmit (part_004 30-67) and       *)
(* VideoGenerator.handleSubmit (VideoGenerator.tsx 129-199).  The actions  *)
(* model an invocation with a non-empty prompt, valid inputs and a         *)
(* selected API key.                                                       *)
(***************************************************************************)
Loading == \E i \in OpIds : ops[i].pc # "idle" /\ ops[i].mounted

AudioModes == {"none", "upload", "tts"}

\* the gateway requests a handler issues: one generation and, for a video
\* with narration (audioMode 'tts'), one speech synthesis
GatewayRequests(kind, audioMode) ==
  IF kind = "video" /\ audioMode = "tts" THEN {"video", "speech"} ELSE {kind}

\* the handler passes the coin check and issues its gateway request(s)
StartOp(kind, audioMode) ==
  /\ HasEnoughCoins(user, CostOf(kind))
  /\ HasFree(ops)
  /\ paid + Cardinality({i \in OpIds : ops[i].pc # "idle"}) < MaxPaid
  /\ ops' = [ops EXCEPT ![FreeSlot(ops)] =
               [pc |-> "gen", kind |-> kind, snap |-> user, mounted |-> TRUE,
                awaiting |-> GatewayRequests(kind, audioMode)]]
  /\ panelError' = ""
  /\ StartHandler
  /\ UNCHANGED <<authVars, remote, local, now, user, shellVars, modalVars,
                 res, unlocks, paid>>

ImageSubmit ==
  /\ PanelMounted("image")
  /\ ~Loading
  /\ StartOp("image", "none")

VideoSubmit(audioMode) ==
  /\ PanelMounted("video")
  /\ ~Loading
  /\ StartOp("video", audioMode)

\* part_004 34-37: the coin check fails, an error is set, nothing is requested
ImageSubmitRefused ==
  /\ PanelMounted("image")
  /\ ~Loading
  /\ ~HasEnoughCoins(user, IMAGE_COST)
  /\ panelError' = "insufficient coins"
  /\ event' = "submit refused"
  /\ UNCHANGED <<authVars, remote, local, now, user, shellVars, modalVars,
                 ops, res, unlocks, paid, ledgerVars>>

\* VideoGenerator.tsx 127-131: isGenerateDisabled contains !hasEnoughCoins, so
\* the handler returns at line 131 and never reaches the setError of line 134
VideoSubmitRefused ==
  /\ PanelMounted("video")
  /\ ~Loading
  /\ ~HasEnoughCoins(user, VIDEO_COST)
  /\ event' = "submit refused"
  /\ UNCHANGED <<authVars, remote, local, now, user, shellVars, modalVars,
                 ops, res, unlocks, panelError, paid, ledgerVars>>

\* the gateway answers one of the requests of a video with narration while
\* the other is still pending: Promise.all stays pending
RequestSucceeds(i, r) ==
  /\ ops[i].pc = "gen"
  /\ r \in ops[i].awaiting
  /\ ops[i].awaiting # {r}
  /\ ops' = [ops EXCEPT ![i].awaiting = @ \ {r}]
  /\ UNCHANGED <<authVars, remote, local, now, user, shellVars, modalVars,
                 res, unlocks, panelError, paid, ledgerVars>>

\* the gateway answers the last pending request: the awaited promise is
\* fulfilled and the handler resumes after its await
BadLastSucceeds(op) == op.pc = "gen"
LastSucceeds(op) == op.pc = "gen" /\ Cardinality(op.awaiting) = 1

\* catch and finally of both handlers
CatchAndFinally(i) ==
  /\ panelError' = IF ops[i].mounted THEN "generation failed" ELSE panelError
  /\ ops' = [ops EXCEPT ![i] = IdleOp]
  /\ event' = "error caught by handleSubmit"

\* a pending gateway request fails, the awaited promise rejects: catch, finally
RequestFails(i) ==
  /\ ops[i].pc = "gen"
  /\ CatchAndFinally(i)
  /\ UNCHANGED <<authVars, remote, local, now, user, shellVars, modalVars,
                 res, unlocks, paid, ledgerVars>>

\* success for a premium profile: no debit (part_004 48, VideoGenerator 176)
SucceedsPremium(i) ==
  /\ LastSucceeds(ops[i])
  /\ IsPremium(ops[i].snap)
  /\ ops' = [ops EXCEPT ![i] = IdleOp]
  /\ event' = "result shown without a debit"
  /\ UNCHANGED <<authVars, remote, local, now, user, shellVars, modalVars,
                 res, unlocks, panelError, paid, ledgerVars>>

\* success for a guest: onUpdateCoins(newBalance) at once
SucceedsGuest(i) ==
  /\ LastSucceeds(ops[i])
  /\ ~IsPremium(ops[i].snap)
  /\ ops[i].snap.isGuest
  /\ HandleCoinsUpdate(ops[i].snap, NewBalance(ops[i].snap, ops[i].kind))
  /\ Charge(CostOf(ops[i].kind))
  /\ ops' = [ops EXCEPT ![i] = IdleOp]
  /\ UNCHANGED <<authVars, remote, now, shellVars, modalVars, res, unlocks,
                 panelError>>

\* success for a signed-in profile: await updateDoc(coins: increment(-cost))
SucceedsAuth(i) ==
  /\ LastSucceeds(ops[i])
  /\ ~IsPremium(ops[i].snap)
  /\ ~ops[i].snap.isGuest
  /\ ops' = [ops EXCEPT ![i].pc = "debit", ![i].awaiting = {}]
  /\ UNCHANGED <<authVars, remote, local, now, user, shellVars, modalVars,
                 res, unlocks, panelError, paid, ledgerVars>>

\* the increment applied twice
BadIncremented(d, delta) ==
  [d EXCEPT !.coins = Some((IF @ = Undefined THEN 0 ELSE @[1]) + delta + delta)]

\* the document after updateDoc(userRef, {coins: increment(delta)})
Incremented(d, delta) ==
  [d EXCEPT !.coins = Some((IF @ = Undefined THEN 0 ELSE @[1]) + delta)]

\* the increment is applied, then onUpdateCoins(newBalance)
DebitOk(i) ==
  /\ ops[i].pc = "debit"
  /\ remote[ops[i].snap.uid.n].exists
  /\ remote' = [remote EXCEPT ![ops[i].snap.uid.n] =
                  Incremented(@, 0 - CostOf(ops[i].kind))]
  /\ HandleCoinsUpdate(ops[i].snap, NewBalance(ops[i].snap, ops[i].kind))
  /\ Charge(CostOf(ops[i].kind))
  /\ ops' = [ops EXCEPT ![i] = IdleOp]
  /\ UNCHANGED <<authVars, now, shellVars, modalVars, res, unlocks, panelError>>

\* the increment is rejected: catch, finally, no onUpdateCoins
DebitFails(i) ==
  /\ ops[i].pc = "debit"
  /\ CatchAndFinally(i)
  /\ UNCHANGED <<authVars, remote, local, now, user, shellVars, modalVars,
                 res, unlocks, paid, ledgerVars>>

(***************************************************************************)
(* PremiumPage (TextToSpeech.tsx 200-280) and PaymentModal                 *)
(* (PaymentModal.tsx 18-49).                                               *)
(***************************************************************************)
\* handleChoosePlan: refused for a premium profile, else the modal opens
ChoosePlan ==
  /\ PremiumUI
  /\ ~selectedPlan
  /\ ~IsPremium(user)
  /\ selectedPlan' = TRUE
  /\ isProcessing' = FALSE
  /\ paymentSuccess' = FALSE
  /\ UNCHANGED <<authVars, remote, local, now, user, shellVars, ops, res,
                 unlocks, panelError, paid, ledgerVars>>

\* handleClose of the modal: ignored while the payment is being verified
CloseModal ==
  /\ PremiumUI
  /\ selectedPlan
  /\ ~isProcessing
  /\ UnmountModal
  /\ UNCHANGED <<authVars, remote, local, now, user, shellVars, ops, res,
                 panelError, paid, ledgerVars>>

\* handleConfirmPayment: the 3 s timer is armed with the onPaymentSuccess of
\* this render, i.e. handlePremiumUnlocked closed over the current `user`
ConfirmPayment ==
  /\ PremiumUI
  /\ selectedPlan
  /\ ~isProcessing
  /\ ~paymentSuccess
  /\ HasFree(unlocks)
  /\ isProcessing' = TRUE
  /\ unlocks' = [unlocks EXCEPT ![FreeSlot(unlocks)] =
                   [pc |-> "timer", snap |-> user, mounted |-> TRUE]]
  /\ StartHandler
  /\ UNCHANGED <<authVars, remote, local, now, user, shellVars, selectedPlan,
                 paymentSuccess, ops, res, panelError, paid>>

\* updatedUser of handlePremiumUnlocked (App.tsx 161)
PremiumUnlocked(u) ==
  [u EXCEPT !.isPremium = Some(TRUE),
            !.coins = IF u.isGuest THEN u.coins ELSE Undefined]

\* the timer callback of the modal (PaymentModal.tsx 32-36)
TimerCallback(i) ==
  /\ isProcessing' = IF unlocks[i].mounted THEN FALSE ELSE isProcessing
  /\ paymentSuccess' = IF unlocks[i].mounted THEN TRUE ELSE paymentSuccess
  /\ UNCHANGED selectedPlan

\* the timer fires for a guest: handlePremiumUnlocked runs to its setTimeout
PaymentVerifiedGuest(i) ==
  /\ unlocks[i].pc = "timer"
  /\ unlocks[i].snap.isGuest
  /\ TimerCallback(i)
  /\ user' = PremiumUnlocked(unlocks[i].snap)
  /\ local' = PremiumUnlocked(unlocks[i].snap)
  /\ unlocks' = [unlocks EXCEPT ![i] = [IdleUnlock EXCEPT !.pc = "closeTimer"]]
  /\ UNCHANGED <<authVars, remote, now, shellVars, ops, res, panelError, paid, ledgerVars>>

\* the timer fires for a signed-in profile: handlePremiumUnlocked runs to
\* await updateDoc(userRef, {isPremium: true})
PaymentVerifiedAuth(i) ==
  /\ unlocks[i].pc = "timer"
  /\ ~unlocks[i].snap.isGuest
  /\ TimerCallback(i)
  /\ user' = PremiumUnlocked(unlocks[i].snap)
  /\ unlocks' = [unlocks EXCEPT ![i].pc = "updateDoc",
                                ![i].mounted = FALSE]
  /\ UNCHANGED <<authVars, remote, local, now, shellVars, ops, res,
                 panelError, paid, ledgerVars>>

\* updateDoc of handlePremiumUnlocked returns, the 2 s timer is armed
UnlockWriteOk(i) ==
  /\ unlocks[i].pc = "updateDoc"
  /\ remote[unlocks[i].snap.uid.n].exists
  /\ remote' = [remote EXCEPT ![unlocks[i].snap.uid.n].isPremium = Some(TRUE)]
  /\ unlocks' = [unlocks EXCEPT ![i] = [IdleUnlock EXCEPT !.pc = "closeTimer"]]
  /\ UNCHANGED <<authVars, local, now, user, shellVars, modalVars, ops, res,
                 panelError, paid, ledgerVars>>

\* updateDoc of handlePremiumUnlocked rejects: nothing catches it
UnlockWriteFails(i) ==
  /\ unlocks[i].pc = "updateDoc"
  /\ unlocks' = [unlocks EXCEPT ![i] = IdleUnlock]
  /\ UNCHANGED <<authVars, remote, local, now, user, shellVars, modalVars,
                 ops, res, panelError, paid, ledgerVars>>

\* the 2 s timer of handlePremiumUnlocked: setIsPremiumPageOpen(false)
ClosePageTimer(i) ==
  /\ unlocks[i].pc = "closeTimer"
  /\ isPremiumPageOpen' = FALSE
  /\ selectedPlan' = FALSE
  /\ isProcessing' = FALSE
  /\ paymentSuccess' = FALSE
  /\ unlocks' = [j \in UnlockIds |->
                   IF j = i THEN IdleUnlock
                   ELSE [unlocks[j] EXCEPT !.mounted = FALSE]]
  /\ UNCHANGED <<authVars, remote, local, now, user, isAppStarted,
                 activeFeature, ops, res, panelError, paid,
                 ledgerVars>>

(***************************************************************************)
(* GeminiService._processVideoToFrames (geminiService.ts 163-240).  Every  *)
(* await of the method is a step boundary; the events of the video element *)
(* and the canvas callbacks are the environment's steps.  Times and        *)
(* progress values are exact fractions [num, den].                         *)
(***************************************************************************)
\* frame counts a caller may pass
MaxFrames == 3
\* the longest duration, in seconds, a video element reports
MaxDuration == 3

\* values of videoElement.duration
Num(v) == [kind |-> "num", v |-> v]
NaN == [kind |-> "NaN", v |-> 0]
PlusInfinity == [kind |-> "Infinity", v |-> 0]
Durations == {Num(v) : v \in -1..MaxDuration} \cup {NaN, PlusInfinity}

\* isFinite(duration)
IsFinite(d) == d.kind = "num"
\* duration <= 0 || !isFinite(duration)  (NaN <= 0 and Infinity <= 0 are false)
BadInvalidDuration(d) == d.kind = "num" /\ d.v <= 0
InvalidDuration(d) == (d.kind = "num" /\ d.v <= 0) \/ ~IsFinite(d)

\* (duration / frameCount) * i
BadFrameTime(d, n, i) == [num |-> d.v * (i + 1), den |-> n]
FrameTime(d, n, i) == [num |-> d.v * i, den |-> n]
\* ((i + 1) / frameCount) * 50
ProgressOf(n, i) == [num |-> (i + 1) * 50, den |-> n]

MetadataErrorMessage == "Could not load video"
DurationErrorMessage == "Video duration is invalid"
SeekErrorMessage == "Error seeking video"
EncodingErrorMessage == "Failed to extract video frame"

\* no invocation: the video element of an invocation reports NaN as its
\* duration until its metadata is loaded
IdleFx ==
  [pc |-> "idle", isFile |-> FALSE, frameCount |-> 0, duration |-> NaN,
   i |-> 0, seeks |-> <<>>, frames |-> <<>>, progress |-> <<>>,
   created |-> 0, revoked |-> 0, result |-> <<>>, error |-> ""]

\* the finally block: URL.revokeObjectURL for a File source
BadFinally(f) == f
Finally(f) == [f EXCEPT !.revoked = IF f.isFile THEN @ + 1 ELSE @]

\* a throw or a rejected await inside the try block
Throws(f, message) == Finally([f EXCEPT !.pc = "failed", !.error = message])

\* the seeks of all the frames left are issued at once
BadLoopHead(f) ==
  IF f.i < f.frameCount
  THEN [f EXCEPT !.pc = "seeking",
                 !.seeks = @ \o [k \in 1..(f.frameCount - f.i) |->
                                  FrameTime(f.duration, f.frameCount,
                                            f.i + k - 1)]]
  ELSE [f EXCEPT !.pc = "encoding"]

\* the head of the for loop: the next seek is issued, or the loop is left
\* for await Promise.all(framePromises)
LoopHead(f) ==
  IF f.i < f.frameCount
  THEN [f EXCEPT !.pc = "seeking",
                 !.seeks = Append(@, FrameTime(f.duration, f.frameCount, f.i))]
  ELSE [f EXCEPT !.pc = "encoding"]

\* videoElement.currentTime after the latest seek
CurrentTime(f) == f.seeks[Len(f.seeks)]

\* the method is called: object URL for a File, video element, src
FxCall(isFile, frameCount) ==
  /\ fx.pc = "idle"
  /\ fx' = [IdleFx EXCEPT !.pc = "metadata", !.isFile = isFile,
                          !.frameCount = frameCount,
                          !.created = IF isFile THEN 1 ELSE 0]

\* 'error' before the metadata is known
MetadataError ==
  /\ fx.pc = "metadata"
  /\ fx' = Throws(fx, MetadataErrorMessage)

\* 'loadedmetadata': canvas, duration check, first turn of the loop
LoadedMetadata(d) ==
  /\ fx.pc = "metadata"
  /\ fx' = IF InvalidDuration(d)
           THEN Throws([fx EXCEPT !.duration = d], DurationErrorMessage)
           ELSE LoopHead([fx EXCEPT !.duration = d])

\* 'seeked': drawImage, toBlob is requested for the canvas as drawn, the
\* frame promise is pushed, onProgress, next turn of the loop
Seeked ==
  /\ fx.pc = "seeking"
  /\ fx' = LoopHead([fx EXCEPT
              !.frames = Append(@, [time |-> CurrentTime(fx),
                                    state |-> "pending"]),
              !.progress = Append(@, ProgressOf(fx.frameCount, fx.i)),
              !.i = @ + 1])

\* 'error' while a seek is awaited
SeekError ==
  /\ fx.pc = "seeking"
  /\ fx' = Throws(fx, SeekErrorMessage)

\* the toBlob callback and the FileReader of frame k complete
FrameEncoded(k) ==
  /\ fx.pc \in {"seeking", "encoding"}
  /\ k \in 1..Len(fx.frames)
  /\ fx.frames[k].state = "pending"
  /\ fx' = [fx EXCEPT !.frames[k].state = "fulfilled"]

\* toBlob yields no blob, or the FileReader fails: the frame promise rejects
FrameEncodingFails(k) ==
  /\ fx.pc \in {"seeking", "encoding"}
  /\ k \in 1..Len(fx.frames)
  /\ fx.frames[k].state = "pending"
  /\ fx' = [fx EXCEPT !.frames[k].state = "rejected"]

\* await Promise.all(framePromises) is fulfilled: return, finally
AllFramesEncoded ==
  /\ fx.pc = "encoding"
  /\ \A k \in 1..Len(fx.frames) : fx.frames[k].state = "fulfilled"
  /\ fx' = Finally([fx EXCEPT
              !.pc = "done",
              !.result = [k \in 1..Len(fx.frames) |-> fx.frames[k].time]])

\* await Promise.all(framePromises) rejects with a rejected frame promise
AFrameRejected ==
  /\ fx.pc = "encoding"
  /\ \E k \in 1..Len(fx.frames) : fx.frames[k].state = "rejected"
  /\ fx' = Throws(fx, EncodingErrorMessage)

(***************************************************************************)
(* The chat panel: Chatbot of src/components/TextToSpeech.tsx.             *)
(* A turn of the history carries the number of the handleSubmit call it    *)
(* belongs to; a request carries the Chat object it was sent on and the    *)
(* component instance whose closure awaits it.                             *)
(***************************************************************************)
MaxCalls == 3
MaxMounts == 2
MaxChats == 4

Styles == {"Normal", "Concise"}

UserMessage(k) == [role |-> "user", call |-> k, text |-> "prompt"]
ModelMessage(k) == [role |-> "model", call |-> k, text |-> "result"]
ErrorMessage(k) ==
  [role |-> "model", call |-> k,
   text |-> "Sorry, I encountered an error. Please try again."]

\* before the first mount: nothing stored, no request sent
IdleChat ==
  [mounted |-> FALSE, inst |-> 0, selectedStyle |-> "Normal", chatRef |-> 0,
   history |-> <<>>, loading |-> FALSE,
   stored |-> [s \in Styles |-> <<>>], reqs |-> {}, calls |-> 0, chats |-> 0]

\* the effect on [history, selectedStyle]: an empty history removes the item
\* (no item and an empty history are both <<>>)
SaveHistory(c) == [c EXCEPT !.stored[c.selectedStyle] = c.history]

\* the effect on [selectedStyle]: a new Chat object, the history of the style
StyleEffect(c) ==
  [c EXCEPT !.chatRef = c.chats + 1,
            !.chats = c.chats + 1,
            !.history = c.stored[c.selectedStyle]]

\* handleSubmit gets past its first line (the prompt is not empty)
MaySubmit(c) == c.mounted /\ ~c.loading /\ c.chatRef # 0

\* the state of a Chatbot being rendered for the first time, effects run
MountChatbot ==
  /\ ~chat.mounted
  /\ chat.inst < MaxMounts
  /\ chat.chats < MaxChats
  /\ chat' = SaveHistory(StyleEffect(
               [chat EXCEPT !.mounted = TRUE,
                            !.inst = chat.inst + 1,
                            !.selectedStyle = "Normal",
                            !.history = <<>>,
                            !.loading = FALSE]))

\* another feature is selected: the component state is gone, what was
\* stored and the requests under way stay
UnmountChatbot ==
  /\ chat.mounted
  /\ chat' = [chat EXCEPT !.mounted = FALSE,
                          !.chatRef = 0,
                          !.history = <<>>,
                          !.loading = FALSE]

ChatSubmit ==
  /\ MaySubmit(chat)
  /\ chat.calls < MaxCalls
  /\ LET k == chat.calls + 1
     IN  chat' = SaveHistory(
                   [chat EXCEPT !.history = Append(chat.history, UserMessage(k)),
                                !.loading = TRUE,
                                !.calls = k,
                                !.reqs = chat.reqs \cup
                                   {[call |-> k, chat |-> chat.chatRef,
                                     inst |-> chat.inst]}])

\* the rest of handleSubmit once its request r is settled with message m:
\* the state setters of an unmounted component do nothing
Settled(r, m) ==
  /\ r \in chat.reqs
  /\ chat' = IF chat.mounted /\ chat.inst = r.inst
             THEN SaveHistory(
                    [chat EXCEPT !.history = Append(chat.history, m),
                                 !.loading = FALSE,
                                 !.reqs = chat.reqs \ {r}])
             ELSE [chat EXCEPT !.reqs = chat.reqs \ {r}]

ChatReplied(r) == Settled(r, ModelMessage(r.call))

ChatFailed(r) == Settled(r, ErrorMessage(r.call))

HandleNewChat ==
  /\ chat.mounted
  /\ chat' = SaveHistory([chat EXCEPT !.history = <<>>])

SelectStyle(s) ==
  /\ chat.mounted
  /\ s # chat.selectedStyle
  /\ chat.chats < MaxChats
  /\ chat' = SaveHistory(StyleEffect([chat EXCEPT !.selectedStyle = s]))

(***************************************************************************)
(* The live agent: LiveAgent of src/components/Logo.tsx, one instance of   *)
(* the component from its mount on.  Start k of startConversation owns     *)
(* microphone stream k, the pair of audio contexts k, live session k and   *)
(* the pair of input nodes k; the refs of the component hold such a number *)
(* or 0 for null.                                                          *)
(***************************************************************************)
MaxStarts == 2

StartIds == 1..MaxStarts

InvalidStateError == "InvalidStateError"

IdleAgent ==
  [mounted |-> "no", isConversing |-> FALSE,
   starts |-> 0, pending |-> {},
   sessionPromiseRef |-> 0, mediaStreamRef |-> 0,
   inputAudioContextRef |-> 0, outputAudioContextRef |-> 0,
   scriptProcessorRef |-> 0, mediaStreamSourceRef |-> 0,
   currentInputTranscription |-> "", currentOutputTranscription |-> "",
   session |-> [k \in StartIds |-> "none"],
   stream |-> [k \in StartIds |-> "none"],
   inputContext |-> [k \in StartIds |-> "none"],
   outputContext |-> [k \in StartIds |-> "none"],
   connected |-> {},
   stops |-> 0, rejected |-> <<>>]

\* stops and rejected tell what the latest step did: the invocations of
\* stopConversation it made, the promises it left rejected without a handler
Quiet(a) == [a EXCEPT !.stops = 0, !.rejected = <<>>]

\* session.close(), queued behind the connection when it is not yet made
CloseSession(st) ==
  CASE st = "connecting" -> "closing"
    [] st = "open" -> "closed"
    [] OTHER -> st

\* AudioContext.close(): a closed context stays closed
CloseContext(st) == IF st = "running" THEN "closed" ELSE st

\* the promise of AudioContext.close() is rejected for a closed context
CloseRejects(ref, st) ==
  IF ref # 0 /\ st[ref] = "closed" THEN <<InvalidStateError>> ELSE <<>>

\* the state setters do nothing once the component is unmounted
SetIsConversing(a, b) ==
  IF a.mounted = "yes" THEN [a EXCEPT !.isConversing = b] ELSE a

StopConversation(a) ==
  LET s == a.sessionPromiseRef
      m == a.mediaStreamRef
      i == a.inputAudioContextRef
      o == a.outputAudioContextRef
  IN  [SetIsConversing(a, FALSE) EXCEPT
         !.session = IF s # 0
                     THEN [a.session EXCEPT ![s] = CloseSession(@)]
                     ELSE a.session,
         !.sessionPromiseRef = 0,
         !.stream = IF m # 0
                    THEN [a.stream EXCEPT ![m] = "stopped"]
                    ELSE a.stream,
         !.mediaStreamRef = 0,
         !.connected = (a.connected \ {<<"processor", a.scriptProcessorRef>>})
                          \ {<<"source", a.mediaStreamSourceRef>>},
         !.scriptProcessorRef = 0,
         !.mediaStreamSourceRef = 0,
         !.inputContext = IF i # 0
                          THEN [a.inputContext EXCEPT ![i] = CloseContext(@)]
                          ELSE a.inputContext,
         !.outputContext = IF o # 0
                           THEN [a.outputContext EXCEPT ![o] = CloseContext(@)]
                           ELSE a.outputContext,
         !.currentInputTranscription = "",
         !.currentOutputTranscription = "",
         !.stops = a.stops + 1,
         !.rejected = a.rejected \o CloseRejects(i, a.inputContext)
                                 \o CloseRejects(o, a.outputContext)]

\* the cleanup of the effect on [isConversing], of the render that had
\* isConversing true: run when the next render has it false, or at unmount
EffectCleanup(before, after) ==
  IF before.mounted = "yes" /\ before.isConversing
       /\ (~after.isConversing \/ after.mounted # "yes")
  THEN StopConversation(after)
  ELSE after

MountLiveAgent ==
  /\ agent.mounted = "no"
  /\ agent' = [agent EXCEPT !.mounted = "yes"]

UnmountLiveAgent ==
  /\ agent.mounted = "yes"
  /\ agent' = EffectCleanup(agent, [Quiet(agent) EXCEPT !.mounted = "gone",
                                                       !.isConversing = FALSE])

\* startConversation up to its await
StartConversation ==
  /\ agent.mounted = "yes"
  /\ ~agent.isConversing
  /\ agent.starts < MaxStarts
  /\ agent' = [Quiet(agent) EXCEPT !.isConversing = TRUE,
                                   !.starts = agent.starts + 1,
                                   !.pending = agent.pending
                                                 \cup {agent.starts + 1}]

\* the microphone is granted: contexts made, connection asked for
GetUserMediaOk(k) ==
  /\ k \in agent.pending
  /\ agent' = [Quiet(agent) EXCEPT
                 !.pending = agent.pending \ {k},
                 !.stream[k] = "live",
                 !.mediaStreamRef = k,
                 !.inputContext[k] = "running",
                 !.inputAudioContextRef = k,
                 !.outputContext[k] = "running",
                 !.outputAudioContextRef = k,
                 !.session[k] = "connecting",
                 !.sessionPromiseRef = k]

\* the microphone is refused: the catch of startConversation
GetUserMediaFails(k) ==
  /\ k \in agent.pending
  /\ agent' = EffectCleanup(agent,
                SetIsConversing([Quiet(agent) EXCEPT
                                   !.pending = agent.pending \ {k}], FALSE))

\* the connection is made: onopen, then the close that was queued
OnOpen(k) ==
  /\ agent.session[k] \in {"connecting", "closing"}
  /\ agent' = [Quiet(agent) EXCEPT
                 !.mediaStreamSourceRef = k,
                 !.scriptProcessorRef = k,
                 !.connected = agent.connected
                                 \cup {<<"source", k>>, <<"processor", k>>},
                 !.session[k] = IF agent.session[k] = "closing"
                                THEN "closed" ELSE "open"]

\* a transcription message of the open session, or the end of a turn
OnMessage(k, part) ==
  /\ agent.session[k] = "open"
  /\ agent' = CASE part = "inputTranscription" ->
                     [Quiet(agent) EXCEPT !.currentInputTranscription = "text"]
                [] part = "outputTranscription" ->
                     [Quiet(agent) EXCEPT !.currentOutputTranscription = "text"]
                [] OTHER ->
                     [Quiet(agent) EXCEPT !.currentInputTranscription = "",
                                          !.currentOutputTranscription = ""]

\* onerror: the transport fails, the callback stops the conversation
OnError(k) ==
  /\ agent.session[k] \in {"connecting", "closing", "open"}
  /\ agent' = EffectCleanup(agent,
                StopConversation([Quiet(agent) EXCEPT !.session[k] = "closed"]))

\* onclose, the remote end closes: the isConversing of the callback is the
\* one of the render whose Start button was pressed, false
OnClose(k) ==
  /\ agent.session[k] = "open"
  /\ agent' = [Quiet(agent) EXCEPT !.session[k] = "closed"]

\* the Stop button, and the effect cleanup of the render that follows
StopClicked ==
  /\ agent.mounted = "yes"
  /\ agent.isConversing
  /\ agent' = EffectCleanup(agent, StopConversation(Quiet(agent)))

(***************************************************************************)
(* Video generation: GeminiService.generateVideo (geminiService.ts         *)
(* 295-353), one invocation, with the backend operation it polls.          *)
(***************************************************************************)
MaxPolls == 3

\* the delay of the timer between two polls, in milliseconds
PollInterval == 10000

NoUriMessage == "Video generation failed or returned no URI."
CallFailedMessage == "request failed"

AspectRatios == {"16:9", "9:16"}

\* duration: null, or a number of seconds
VideoDurations == {0, 5, 8}

\* referenceImages: null, an empty list, a list of frames
ReferenceImages == {"null", "empty", "frames"}

HasReferenceImages(refs) == refs = "frames"

\* the payload of lines 300-336, the overlay image still to be read
Payload(aspectRatio, duration, refs) ==
  [model |-> IF HasReferenceImages(refs)
             THEN "veo-3.1-generate-preview"
             ELSE "veo-3.1-fast-generate-preview",
   aspectRatio |-> IF HasReferenceImages(refs) THEN "16:9" ELSE aspectRatio,
   duration |-> IF duration # 0 THEN <<duration, "s">> ELSE <<>>,
   referenceImages |-> HasReferenceImages(refs),
   image |-> FALSE]

NoOperation == [done |-> FALSE, uri |-> FALSE]

IdleGen ==
  [pc |-> "idle", payload |-> Payload("16:9", 0, "null"),
   operation |-> NoOperation,
   backend |-> [state |-> "none", uri |-> FALSE],
   timer |-> 0, polls |-> 0,
   result |-> "", error |-> ""]

\* what the backend answers about its operation
OperationOf(b) == [done |-> b.state = "done", uri |-> b.state = "done" /\ b.uri]

\* the loop is left without looking at the flag
BadKeepsPolling(op) == FALSE

\* while (!operation.done)
KeepsPolling(op) == ~op.done

\* an awaited call rejects: the method fails with it
CallFails(g) ==
  [g EXCEPT !.pc = "failed", !.error = CallFailedMessage]

\* the method has an operation: the head of the while loop and what follows
\* the loop
LoopOrFinish(g, op) ==
  LET h == [g EXCEPT !.operation = op]
  IN  IF KeepsPolling(op)
      THEN [h EXCEPT !.pc = "waiting", !.timer = PollInterval]
      ELSE IF ~op.uri
           THEN [h EXCEPT !.pc = "failed", !.error = NoUriMessage]
           ELSE [h EXCEPT !.pc = "fetching"]

\* generateVideo is called: without an overlay image the request is sent
GenerateVideo(aspectRatio, image, duration, refs) ==
  /\ gen.pc = "idle"
  /\ gen' = [IdleGen EXCEPT
               !.payload = Payload(aspectRatio, duration, refs),
               !.pc = IF image THEN "reading" ELSE "starting",
               !.backend.state = IF image THEN "none" ELSE "running"]

\* onloadend of the FileReader with a result: the request is sent
ImageRead ==
  /\ gen.pc = "reading"
  /\ gen' = [gen EXCEPT !.payload.image = TRUE, !.pc = "starting",
                        !.backend.state = "running"]

\* onloadend without a result: the handler throws on split, the awaited
\* promise is never settled
ImageUnreadable ==
  /\ gen.pc = "reading"
  /\ gen' = [gen EXCEPT !.pc = "stuck"]

\* the backend finishes its operation, with or without a video
BackendCompletes(uri) ==
  /\ gen.backend.state = "running"
  /\ gen' = [gen EXCEPT !.backend = [state |-> "done", uri |-> uri]]

\* ai.models.generateVideos answers with the operation
OperationStarted ==
  /\ gen.pc = "starting"
  /\ gen' = LoopOrFinish(gen, OperationOf(gen.backend))

\* ai.models.generateVideos or ai.operations.getVideosOperation rejects
RequestRejected ==
  /\ gen.pc \in {"starting", "polling"}
  /\ gen' = CallFails(gen)

\* the timer of line 341 fires: getVideosOperation is sent
PollTimerFires ==
  /\ gen.pc = "waiting"
  /\ gen.polls < MaxPolls
  /\ gen' = [gen EXCEPT !.pc = "polling", !.timer = 0, !.polls = @ + 1]

\* getVideosOperation answers
PollAnswered ==
  /\ gen.pc = "polling"
  /\ gen' = LoopOrFinish(gen, OperationOf(gen.backend))

\* the download answers (response.ok is not looked at): blob, object URL
VideoFetched ==
  /\ gen.pc = "fetching"
  /\ gen' = [gen EXCEPT !.pc = "returned", !.result = "blob:video"]

\* fetch or blob() rejects
FetchFails ==
  /\ gen.pc = "fetching"
  /\ gen' = CallFails(gen)

(***************************************************************************)
(* The microphone encoder: encode and createBlob of                        *)
(* src/components/Logo.tsx 46-65.  A sample Num(n) is the number           *)
(* n / SampleUnit, and its product with Scale the number                  *)
(* n / (SampleUnit / Scale) = n / 2, exact as it is in floating point;     *)
(* NaN and PlusInfinity are the samples that are no finite number.         *)
(***************************************************************************)
MaxSamples == 2

SampleUnit == 65536
Scale == 32768
Int16Modulus == 65536

\* samples around every edge of the conversion: 0, +-1/65536, +-0.5,
\* just below 1, 1, just above -1, -1, just below -1, +-1.5, +-2
Samples ==
  {Num(n) : n \in {0, 1, -1, 3, -3, 32768, -32768, 65534, 65535, 65536,
                   65537, -65535, -65536, -65537, -65538, 98304, -98304,
                   131072, -131072}}
    \cup {NaN, PlusInfinity}

Float32Arrays ==
  UNION {[1..l -> Samples] : l \in 0..MaxSamples}

\* the integral part of a / b for b > 0, rounding toward zero
Truncated(a, b) == IF a >= 0 THEN a \div b ELSE 0 - ((0 - a) \div b)

\* the value clamped to the 16-bit range
BadToInt16(x) ==
  IF ~IsFinite(x) THEN 0
  ELSE LET t == Truncated(x.v, SampleUnit \div Scale)
       IN  IF t > 32767 THEN 32767 ELSE IF t < -32768 THEN -32768 ELSE t

\* the store of the number x into an Int16Array element: no finite number
\* gives 0, else truncation, modulo 2^16, as a signed value
ToInt16(x) ==
  IF ~IsFinite(x) THEN 0
  ELSE LET t == Truncated(x.v, SampleUnit \div Scale)
           m == t % Int16Modulus
       IN  IF m >= 32768 THEN m - Int16Modulus ELSE m

\* the two bytes of an Int16Array element in its buffer, low byte first
BytesOfInt16(w) ==
  LET u == w % Int16Modulus IN <<u % 256, u \div 256>>

RECURSIVE BufferOf(_)
\* new Uint8Array(int16.buffer)
BufferOf(int16) ==
  IF int16 = <<>> THEN <<>>
  ELSE BytesOfInt16(Head(int16)) \o BufferOf(Tail(int16))

\* the padding character of base64, beside the digits 0..63
Pad == 64

RECURSIVE Btoa(_)
\* btoa of the binary string whose character codes are the bytes b
Btoa(b) ==
  IF Len(b) = 0 THEN <<>>
  ELSE IF Len(b) = 1
    THEN <<b[1] \div 4, (b[1] % 4) * 16, Pad, Pad>>
  ELSE IF Len(b) = 2
    THEN <<b[1] \div 4, (b[1] % 4) * 16 + b[2] \div 16, (b[2] % 16) * 4, Pad>>
  ELSE <<b[1] \div 4, (b[1] % 4) * 16 + b[2] \div 16,
         (b[2] % 16) * 4 + b[3] \div 64, b[3] % 64>>
         \o Btoa(SubSeq(b, 4, Len(b)))

\* encode(bytes): String.fromCharCode of every byte, then btoa
Encode(bytes) == Btoa(bytes)

\* createBlob(data)
CreateBlob(data) ==
  [data |-> Encode(BufferOf([i \in 1..Len(data) |-> ToInt16(data[i])])),
   mimeType |-> "audio/pcm;rate=16000"]

NoBlob == [data |-> <<>>, mimeType |-> ""]

IdleEnc == [pc |-> "idle", input |-> <<>>, blob |-> NoBlob]

\* onaudioprocess: the buffer of the event is converted
AudioProcess ==
  /\ enc.pc = "idle"
  /\ enc' = [enc EXCEPT !.pc = "sent", !.blob = CreateBlob(enc.input)]

(***************************************************************************)
(* The VideoEditor panel (VideoGenerator.tsx 438-729), rendered by the     *)
(* shell without props (App.tsx 194-195).  As for the paid panels the      *)
(* actions model invocations with a selected API key; the instructions     *)
(* keep their non-empty default.                                           *)
(***************************************************************************)
MaxEdits == 2
EditIds == 1..MaxEdits

IdleEdit == [pc |-> "idle", mounted |-> FALSE]
\* no instance of the panel
NoEditor == [mounted |-> FALSE, mainVideo |-> FALSE, styleIsFile |-> FALSE,
             shown |-> FALSE, error |-> "",
             runs |-> [i \in EditIds |-> IdleEdit]]

\* `loading` of the mounted instance
EditorLoading ==
  \E i \in EditIds : editor.runs[i].pc # "idle" /\ editor.runs[i].mounted

\* isSubmitDisabled (VideoGenerator.tsx 591)
IsSubmitDisabled == EditorLoading \/ ~editor.mainVideo

\* the shell renders <VideoEditor />: a new instance with its initial state;
\* the handlers of an earlier instance run on
SelectVideoEditing ==
  /\ SelectFeature("editing")
  /\ editor' = [NoEditor EXCEPT !.mounted = TRUE, !.runs = editor.runs]

\* another panel replaces the editor
LeaveVideoEditing(f) ==
  /\ activeFeature = "editing"
  /\ SelectFeature(f)
  /\ editor' = [NoEditor EXCEPT
                  !.runs = [i \in EditIds |->
                              [editor.runs[i] EXCEPT !.mounted = FALSE]]]

\* handleFileChange (VideoGenerator.tsx 489-519); the inputs are disabled
\* while loading (617)
HandleFileChange(type) ==
  /\ PanelMounted("editing")
  /\ editor.mounted
  /\ ~EditorLoading
  /\ type \in {"video", "style"}
  /\ editor' = IF type = "video" THEN [editor EXCEPT !.mainVideo = TRUE]
                                 ELSE [editor EXCEPT !.styleIsFile = TRUE]
  /\ editor' # editor
  /\ UNCHANGED vars

\* handleSelectSample (521-525)
HandleSelectSample ==
  /\ PanelMounted("editing")
  /\ editor.mounted
  /\ editor.styleIsFile
  /\ editor' = [editor EXCEPT !.styleIsFile = FALSE]
  /\ UNCHANGED vars

\* handleSubmit (542-589) up to its first await: with a style file the
\* frames are extracted first (561), else generateVideo is called (567)
EditorSubmit ==
  /\ PanelMounted("editing")
  /\ editor.mounted
  /\ ~IsSubmitDisabled
  /\ \E i \in EditIds :
       /\ editor.runs[i].pc = "idle"
       /\ \A j \in 1..(i - 1) : editor.runs[j].pc # "idle"
       /\ editor' = [editor EXCEPT
            !.shown = FALSE, !.error = "",
            !.runs[i] = [pc |-> IF editor.styleIsFile THEN "frames" ELSE "gen",
                         mounted |-> TRUE]]
  /\ event' = ""
  /\ UNCHANGED <<authVars, remote, local, now, user, shellVars, modalVars,
                 ops, res, unlocks, panelError, paid, ledgerVars>>

\* getVideoFrames resolved: generateVideo is called with the frames (562)
FramesExtracted(i) ==
  /\ editor.runs[i].pc = "frames"
  /\ editor' = [editor EXCEPT !.runs[i].pc = "gen"]
  /\ event' = ""
  /\ UNCHANGED <<authVars, remote, local, now, user, shellVars, modalVars,
                 ops, res, unlocks, panelError, paid, ledgerVars>>

\* the awaited promise is fulfilled: setGeneratedVideoUrl, finally (572-588)
EditorVideoReady(i) ==
  /\ editor.runs[i].pc = "gen"
  /\ editor' = [editor EXCEPT
       !.shown = IF editor.runs[i].mounted THEN TRUE ELSE @,
       !.runs[i] = IdleEdit]
  /\ event' = "remix shown"
  /\ UNCHANGED <<authVars, remote, local, now, user, shellVars, modalVars,
                 ops, res, unlocks, panelError, paid, ledgerVars>>

\* getVideoFrames or generateVideo rejects: catch, finally (575-588)
EditorFails(i) ==
  /\ editor.runs[i].pc # "idle"
  /\ editor' = [editor EXCEPT
       !.error = IF editor.runs[i].mounted
                   THEN "An error occurred during generation." ELSE @,
       !.runs[i] = IdleEdit]
  /\ event' = "error caught by handleSubmit"
  /\ UNCHANGED <<authVars, remote, local, now, user, shellVars, modalVars,
                 ops, res, unlocks, panelError, paid, ledgerVars>>

(***************************************************************************)
(* The session logic of the app.                                           *)
(***************************************************************************)
Init ==
  AppInit /\ fx = IdleFx /\ chat = IdleChat /\ agent = IdleAgent
    /\ gen = IdleGen /\ enc = IdleEnc /\ editor = NoEditor

\* the steps that leave `event` to Next
Handlers ==
  \/ AuthInit
  \/ \E i \in ResIds : GetDocOk(i)
  \/ \E i \in ResIds : UpdateDocOk(i)
  \/ \E i \in ResIds : ReGetDocOk(i)
  \/ \E i \in ResIds : SetDocOk(i)
  \/ \E n \in Uids : SignInOk(n)
  \/ SignOutOk
  \/ StartApp
  \/ \E f \in Features : SelectFeature(f)
  \/ OpenPremiumPage
  \/ ClosePremiumPage
  \/ ImageSubmit
  \/ \E a \in AudioModes : VideoSubmit(a)
  \/ \E i \in OpIds, r \in {"video", "speech"} : RequestSucceeds(i, r)
  \/ \E i \in OpIds : SucceedsGuest(i)
  \/ \E i \in OpIds : SucceedsAuth(i)
  \/ \E i \in OpIds : DebitOk(i)
  \/ ChoosePlan
  \/ CloseModal
  \/ ConfirmPayment
  \/ \E i \in UnlockIds : PaymentVerifiedGuest(i)
  \/ \E i \in UnlockIds : PaymentVerifiedAuth(i)
  \/ \E i \in UnlockIds : UnlockWriteOk(i)
  \/ \E i \in UnlockIds : UnlockWriteFails(i)
  \/ \E i \in UnlockIds : ClosePageTimer(i)

Next ==
  \/ Handlers /\ event' = "" /\ UNCHANGED otherVars
  \/ SignInFails /\ UNCHANGED otherVars
  \/ SignOutFails /\ UNCHANGED otherVars
  \/ ImageSubmitRefused /\ UNCHANGED otherVars
  \/ VideoSubmitRefused /\ UNCHANGED otherVars
  \/ \E i \in ResIds : ResolveRejects(i) /\ UNCHANGED otherVars
  \/ \E i \in OpIds : SucceedsPremium(i) /\ UNCHANGED otherVars
  \/ \E i \in OpIds : RequestFails(i) /\ UNCHANGED otherVars
  \/ \E i \in OpIds : DebitFails(i) /\ UNCHANGED otherVars

Spec == Init /\ [][Next]_allVars

(***************************************************************************)
(* Session resolution on its own: the auth callback, sign-in and sign-out, *)
(* and changes of the identity reported from outside the page; no paid     *)
(* operation, no premium unlock.                                           *)
(***************************************************************************)
SessionNext ==
  \/ AuthInit /\ event' = "" /\ UNCHANGED otherVars
  \/ \E i \in ResIds : GetDocOk(i) /\ event' = "" /\ UNCHANGED otherVars
  \/ \E i \in ResIds : UpdateDocOk(i) /\ event' = "" /\ UNCHANGED otherVars
  \/ \E i \in ResIds : ReGetDocOk(i) /\ event' = "" /\ UNCHANGED otherVars
  \/ \E i \in ResIds : SetDocOk(i) /\ event' = "" /\ UNCHANGED otherVars
  \/ \E i \in ResIds : ResolveRejects(i) /\ UNCHANGED otherVars
  \/ \E n \in Uids : SignInOk(n) /\ event' = "" /\ UNCHANGED otherVars
  \/ SignOutOk /\ event' = "" /\ UNCHANGED otherVars
  \/ \E n \in Uids \cup {0} :
       AuthChangedElsewhere(n) /\ event' = "" /\ UNCHANGED otherVars
  \/ StartApp /\ event' = "" /\ UNCHANGED otherVars

SessionSpec == Init /\ [][SessionNext]_allVars

(***************************************************************************)
(* The frame extractor on its own, the app at rest.                        *)
(***************************************************************************)
AppAtRest ==
  /\ AppInit
  /\ authUser = 0
  /\ local = NoItem
  /\ remote = [n \in Uids |-> NoDoc]

FrameInit ==
  AppAtRest /\ fx = IdleFx /\ chat = IdleChat /\ agent = IdleAgent
    /\ gen = IdleGen /\ enc = IdleEnc /\ editor = NoEditor

FrameNext ==
  \/ \E isFile \in BOOLEAN, n \in 0..MaxFrames :
       FxCall(isFile, n) /\ UNCHANGED <<vars, chat, agent, gen, enc, editor>>
  \/ MetadataError /\ UNCHANGED <<vars, chat, agent, gen, enc, editor>>
  \/ \E d \in Durations : LoadedMetadata(d) /\ UNCHANGED <<vars, chat, agent, gen, enc, editor>>
  \/ Seeked /\ UNCHANGED <<vars, chat, agent, gen, enc, editor>>
  \/ SeekError /\ UNCHANGED <<vars, chat, agent, gen, enc, editor>>
  \/ \E k \in 1..MaxFrames : FrameEncoded(k) /\ UNCHANGED <<vars, chat, agent, gen, enc, editor>>
  \/ \E k \in 1..MaxFrames : FrameEncodingFails(k) /\ UNCHANGED <<vars, chat, agent, gen, enc, editor>>
  \/ AllFramesEncoded /\ UNCHANGED <<vars, chat, agent, gen, enc, editor>>
  \/ AFrameRejected /\ UNCHANGED <<vars, chat, agent, gen, enc, editor>>

FrameSpec == FrameInit /\ [][FrameNext]_allVars

(***************************************************************************)
(* The chat panel on its own, the app at rest.                             *)
(***************************************************************************)
ChatInit ==
  AppAtRest /\ fx = IdleFx /\ chat = IdleChat /\ agent = IdleAgent
    /\ gen = IdleGen /\ enc = IdleEnc /\ editor = NoEditor

ChatNext ==
  \/ MountChatbot /\ UNCHANGED <<vars, fx, agent, gen, enc, editor>>
  \/ UnmountChatbot /\ UNCHANGED <<vars, fx, agent, gen, enc, editor>>
  \/ ChatSubmit /\ UNCHANGED <<vars, fx, agent, gen, enc, editor>>
  \/ \E r \in chat.reqs : ChatReplied(r) /\ UNCHANGED <<vars, fx, agent, gen, enc, editor>>
  \/ \E r \in chat.reqs : ChatFailed(r) /\ UNCHANGED <<vars, fx, agent, gen, enc, editor>>
  \/ HandleNewChat /\ UNCHANGED <<vars, fx, agent, gen, enc, editor>>
  \/ \E s \in Styles : SelectStyle(s) /\ UNCHANGED <<vars, fx, agent, gen, enc, editor>>

ChatSpec == ChatInit /\ [][ChatNext]_allVars

(***************************************************************************)
(* The live agent on its own, the app at rest.                             *)
(***************************************************************************)
AgentInit ==
  AppAtRest /\ fx = IdleFx /\ chat = IdleChat /\ agent = IdleAgent
    /\ gen = IdleGen /\ enc = IdleEnc /\ editor = NoEditor

AgentNext ==
  \/ MountLiveAgent /\ UNCHANGED <<vars, fx, chat, gen, enc, editor>>
  \/ UnmountLiveAgent /\ UNCHANGED <<vars, fx, chat, gen, enc, editor>>
  \/ StartConversation /\ UNCHANGED <<vars, fx, chat, gen, enc, editor>>
  \/ \E k \in StartIds : GetUserMediaOk(k) /\ UNCHANGED <<vars, fx, chat, gen, enc, editor>>
  \/ \E k \in StartIds : GetUserMediaFails(k) /\ UNCHANGED <<vars, fx, chat, gen, enc, editor>>
  \/ \E k \in StartIds : OnOpen(k) /\ UNCHANGED <<vars, fx, chat, gen, enc, editor>>
  \/ \E k \in StartIds,
         part \in {"inputTranscription", "outputTranscription", "turnComplete"} :
       OnMessage(k, part) /\ UNCHANGED <<vars, fx, chat, gen, enc, editor>>
  \/ \E k \in StartIds : OnError(k) /\ UNCHANGED <<vars, fx, chat, gen, enc, editor>>
  \/ \E k \in StartIds : OnClose(k) /\ UNCHANGED <<vars, fx, chat, gen, enc, editor>>
  \/ StopClicked /\ UNCHANGED <<vars, fx, chat, gen, enc, editor>>

AgentSpec == AgentInit /\ [][AgentNext]_allVars

(***************************************************************************)
(* Video generation on its own, the app at rest.  The timer fires and the  *)
(* requests are answered or rejected in the end; nothing makes the backend *)
(* finish.                                                                 *)
(***************************************************************************)
VideoInit ==
  AppAtRest /\ fx = IdleFx /\ chat = IdleChat /\ agent = IdleAgent
    /\ gen = IdleGen /\ enc = IdleEnc /\ editor = NoEditor

\* the steps of the method that the browser and the network take for it
VideoProgress ==
  \/ ImageRead
  \/ OperationStarted
  \/ PollTimerFires
  \/ PollAnswered
  \/ VideoFetched

VideoNext ==
  \/ \E aspectRatio \in AspectRatios, image \in BOOLEAN,
         duration \in VideoDurations, refs \in ReferenceImages :
       GenerateVideo(aspectRatio, image, duration, refs)
         /\ UNCHANGED <<vars, fx, chat, agent, enc, editor>>
  \/ ImageRead /\ UNCHANGED <<vars, fx, chat, agent, enc, editor>>
  \/ OperationStarted /\ UNCHANGED <<vars, fx, chat, agent, enc, editor>>
  \/ PollTimerFires /\ UNCHANGED <<vars, fx, chat, agent, enc, editor>>
  \/ PollAnswered /\ UNCHANGED <<vars, fx, chat, agent, enc, editor>>
  \/ VideoFetched /\ UNCHANGED <<vars, fx, chat, agent, enc, editor>>
  \/ ImageUnreadable /\ UNCHANGED <<vars, fx, chat, agent, enc, editor>>
  \/ \E uri \in BOOLEAN :
       BackendCompletes(uri) /\ UNCHANGED <<vars, fx, chat, agent, enc, editor>>
  \/ RequestRejected /\ UNCHANGED <<vars, fx, chat, agent, enc, editor>>
  \/ FetchFails /\ UNCHANGED <<vars, fx, chat, agent, enc, editor>>

VideoSpec ==
  VideoInit /\ [][VideoNext]_allVars
    /\ WF_allVars(VideoProgress /\ UNCHANGED <<vars, fx, chat, agent, enc, editor>>)

(***************************************************************************)
(* The microphone encoder on its own: any buffer of samples, converted.    *)
(***************************************************************************)
EncInit ==
  /\ AppAtRest /\ fx = IdleFx /\ chat = IdleChat /\ agent = IdleAgent
  /\ gen = IdleGen /\ editor = NoEditor
  /\ \E data \in Float32Arrays : enc = [IdleEnc EXCEPT !.input = data]

EncNext == AudioProcess /\ UNCHANGED <<vars, fx, chat, agent, gen, editor>>

EncSpec == EncInit /\ [][EncNext]_allVars


(***************************************************************************)
(* The two panels that ask the gateway for a video, VideoGenerator and     *)
(* VideoEditor, with the profile resolved from what the browser holds; a   *)
(* guest holds fewer coins than a video costs.                             *)
(***************************************************************************)
EditorNext ==
  \/ AuthInit /\ event' = "" /\ UNCHANGED otherVars
  \/ \E i \in ResIds : GetDocOk(i) /\ event' = "" /\ UNCHANGED otherVars
  \/ \E i \in ResIds : UpdateDocOk(i) /\ event' = "" /\ UNCHANGED otherVars
  \/ \E i \in ResIds : ReGetDocOk(i) /\ event' = "" /\ UNCHANGED otherVars
  \/ \E i \in ResIds : SetDocOk(i) /\ event' = "" /\ UNCHANGED otherVars
  \/ StartApp /\ event' = "" /\ UNCHANGED otherVars
  \/ /\ activeFeature # "editing"
     /\ SelectFeature("video") /\ event' = "" /\ UNCHANGED otherVars
  \/ SelectVideoEditing /\ event' = ""
       /\ UNCHANGED <<fx, chat, agent, gen, enc>>
  \/ LeaveVideoEditing("video") /\ event' = ""
       /\ UNCHANGED <<fx, chat, agent, gen, enc>>
  \/ VideoSubmit("none") /\ event' = "" /\ UNCHANGED otherVars
  \/ VideoSubmitRefused /\ UNCHANGED otherVars
  \/ \E i \in OpIds : SucceedsAuth(i) /\ event' = "" /\ UNCHANGED otherVars
  \/ \E i \in OpIds : SucceedsPremium(i) /\ UNCHANGED otherVars
  \/ \E i \in OpIds : RequestFails(i) /\ UNCHANGED otherVars
  \/ \E i \in OpIds : DebitOk(i) /\ event' = "" /\ UNCHANGED otherVars
  \/ \E type \in {"video", "style"} :
       HandleFileChange(type) /\ UNCHANGED <<fx, chat, agent, gen, enc>>
  \/ HandleSelectSample /\ UNCHANGED <<fx, chat, agent, gen, enc>>
  \/ EditorSubmit /\ UNCHANGED <<fx, chat, agent, gen, enc>>
  \/ \E i \in EditIds :
       FramesExtracted(i) /\ UNCHANGED <<fx, chat, agent, gen, enc>>
  \/ \E i \in EditIds :
       EditorVideoReady(i) /\ UNCHANGED <<fx, chat, agent, gen, enc>>
  \/ \E i \in EditIds :
       EditorFails(i) /\ UNCHANGED <<fx, chat, agent, gen, enc>>

EditorSpec == Init /\ [][EditorNext]_allVars


(***************************************************************************)
(* Properties.  A step of handler i is recognised by what it does to the   *)
(* process record: Finishes(i) is the step in which a paid operation       *)
(* returns, Charged(i) the one in which its handler applied a charge.      *)
(***************************************************************************)
Finishes(i) == ops[i].pc # "idle" /\ ops'[i].pc = "idle"
Charged(i) == Finishes(i) /\ paid' = paid + 1
TimerFires(i) == unlocks[i].pc = "timer" /\ unlocks'[i].pc # "timer"
DocCoins(d) == IF d.exists THEN Coins(d) ELSE 0
ItemCoins(it) == IF it = NoItem THEN 0 ELSE Coins(it)
UserCoins == IF user = NoUser THEN 0 ELSE Coins(user)

\* C1: a successful paid operation of cost a on a non-premium profile whose
\* balance was b >= a when it was submitted leaves the balance b - a, and
\* while operations run one after another the balance of a non-premium
\* profile is its resolved balance minus the sum of the prices charged since.
C1_DebitIsExact ==
  [][ /\ \A i \in OpIds :
          Charged(i) =>
            /\ ~IsPremium(ops[i].snap)
            /\ CostOf(ops[i].kind) <= Coins(ops[i].snap)
            /\ user'.coins = Some(Coins(ops[i].snap) - CostOf(ops[i].kind))
            /\ (serial => Coins(user') = Coins(user) - CostOf(ops[i].kind))
      /\ (serial' /\ user' # NoUser /\ ~IsPremium(user')
            => Coins(user') = expected')]_vars

\* C1 witness: a guest created with 10 coins has paid for two image
\* generations one after the other and holds 0 coins
C1_Witness ==
  /\ paid = 2 /\ serial
  /\ user # NoUser /\ user.isGuest /\ ~IsPremium(user)
  /\ user.uid.n = 1
  /\ user.coins = Some(0) /\ expected = 0
  /\ local = user

\* C2 (as stated): a submit refused for lack of coins issues no request,
\* changes no balance and sets the insufficient-coins error of its panel.
C2_RefusalSurfacesError ==
  [][event' = "submit refused" =>
       /\ ops' = ops /\ user' = user /\ local' = local /\ remote' = remote
       /\ panelError' = "insufficient coins"]_vars

\* C3: a failing gateway request or a failing debit write leaves every
\* balance as it is; a charge is applied, and the remote debit is
\* requested, only by a handler whose gateway requests have all succeeded.
C3_DebitOnlyAfterSuccess ==
  [][ /\ (event' = "error caught by handleSubmit" =>
           /\ user' = user /\ local' = local /\ remote' = remote
           /\ paid' = paid)
      /\ \A i \in OpIds :
           /\ (ops'[i].pc = "debit" /\ ops[i].pc # "debit" =>
                 ops[i].pc = "gen" /\ Cardinality(ops[i].awaiting) = 1)
           /\ (Charged(i) =>
                 \/ ops[i].pc = "debit"
                 \/ ops[i].pc = "gen" /\ Cardinality(ops[i].awaiting) = 1)
      /\ ((user' # user /\ UserCoins' < UserCoins)
            \/ ItemCoins(local') < ItemCoins(local)
            \/ (\E n \in Uids : DocCoins(remote'[n]) < DocCoins(remote[n]))
          => \/ \E i \in OpIds : Charged(i)
             \/ \E i \in UnlockIds : TimerFires(i)
             \/ \E i \in ResIds : res[i].pc # res'[i].pc
             \/ authUser' # authUser
             \/ subscribed' # subscribed)]_vars

\* C3 witness: one operation was charged after its success and another one
\* has just failed without a charge
C3_Witness ==
  /\ event = "error caught by handleSubmit"
  /\ paid = 1 /\ serial
  /\ user # NoUser /\ ~IsPremium(user) /\ Coins(user) = expected

\* C4: a premium profile is never refused for lack of coins, and the success
\* of its operation changes no balance and applies no charge.
C4_PremiumIsNotDebited ==
  [][ /\ (event' = "submit refused" => ~IsPremium(user))
      /\ \A i \in OpIds :
           Finishes(i) /\ IsPremium(ops[i].snap) =>
             /\ user' = user /\ local' = local /\ remote' = remote
             /\ paid' = paid]_vars

\* C4 witness: a premium profile without any coins has been shown a result
C4_Witness ==
  /\ event = "result shown without a debit"
  /\ user # NoUser /\ IsPremium(user) /\ Coins(user) = 0

\* C5 (as stated): the balance of the active profile, of the local guest
\* record and of every remote document is never negative.
C5_BalancesNonNegative ==
  /\ UserCoins >= 0
  /\ ItemCoins(local) >= 0
  /\ \A n \in Uids : DocCoins(remote[n]) >= 0

\* C6 (as stated): handlePremiumUnlocked on a profile that is already
\* premium changes neither the profile, the local guest record nor the
\* remote document, and requests no remote write.
C6_UnlockOnPremiumIsNoOp ==
  [][\A i \in UnlockIds :
       TimerFires(i) /\ user # NoUser /\ IsPremium(user)
         /\ unlocks[i].snap = user =>
           /\ user' = user /\ local' = local /\ remote' = remote
           /\ unlocks'[i].pc # "updateDoc"]_vars

\* C7 (as stated): handlePremiumUnlocked on a guest sets isPremium in memory
\* and in the local guest record, keeps the coin balance and every other
\* field of the profile and requests no remote write; on a signed-in profile
\* it writes isPremium = true to the user's document.
C7_UnlockKeepsCoins ==
  [][\A i \in UnlockIds :
       /\ (TimerFires(i) /\ user.uid = unlocks[i].snap.uid /\ user.isGuest =>
             /\ user' = [user EXCEPT !.isPremium = Some(TRUE)]
             /\ local' = user'
             /\ remote' = remote
             /\ unlocks'[i].pc # "updateDoc")
       /\ (TimerFires(i) /\ user.uid = unlocks[i].snap.uid /\ ~user.isGuest =>
             unlocks'[i].pc = "updateDoc")
       /\ (unlocks[i].pc = "updateDoc" /\ unlocks'[i].pc = "closeTimer" =>
             remote'[unlocks[i].snap.uid.n].isPremium = Some(TRUE))]_vars

\* C8: a sign-in removes the guest record from local storage, and the
\* profile its resolution activates is not a guest and holds the coins of
\* the remote document (100 for a document just created, the stored value
\* otherwise), whatever the guest held.
C8_SignInLoadsRemoteBalance ==
  [][ /\ (authUser' # authUser /\ authUser' # 0 => local' = NoItem)
      /\ \A i \in ResIds :
           res[i].pc \in {"reGetDoc", "setDoc"} /\ res'[i].pc = "idle"
             /\ event' # "auth callback rejected" =>
               /\ user'.uid = [kind |-> "auth", n |-> res[i].cu]
               /\ user'.isGuest = FALSE
               /\ user'.coins = remote'[res[i].cu].coins
               /\ (res[i].pc = "setDoc" =>
                     user'.coins = Some(AUTH_START_COINS))
               /\ (res[i].pc = "reGetDoc" =>
                     remote'[res[i].cu].coins = remote[res[i].cu].coins)]_vars

\* C8 witness: a guest loaded from local storage has spent coins, signed in,
\* and the active profile holds the 100 coins of the remote document while
\* local storage holds no guest record
C8_Witness ==
  /\ user # NoUser /\ ~user.isGuest
  /\ local = NoItem
  /\ paid = 1 /\ serial /\ expected = AUTH_START_COINS
  /\ user.coins = Some(AUTH_START_COINS)
  /\ remote[user.uid.n].coins = Some(AUTH_START_COINS)

\* C9: the update of an existing document sets coins to 100 and isPremium
\* to false exactly where they are missing and keeps the other profile
\* fields; a document is created, with 100 coins and isPremium false, exactly
\* when none exists; the profile then activated carries the document's coins
\* and isPremium, both present.
C9_BackfillBeforeActivation ==
  [][\A i \in ResIds :
       LET n == res[i].cu
           d == remote[n]
           e == remote'[n]
           activates == /\ res'[i].pc = "idle"
                        /\ event' # "auth callback rejected"
       IN
       /\ (res[i].pc = "getDoc" /\ res'[i].pc \in {"updateDoc", "setDoc"} =>
             (res'[i].pc = "setDoc") = (~d.exists))
       /\ (res[i].pc = "updateDoc" /\ res'[i].pc = "reGetDoc" =>
             /\ e.coins = IF d.coins = Undefined
                          THEN Some(AUTH_START_COINS) ELSE d.coins
             /\ e.isPremium = IF d.isPremium = Undefined
                              THEN Some(FALSE) ELSE d.isPremium
             /\ e.displayName = d.displayName
             /\ e.email = d.email
             /\ e.photoURL = d.photoURL
             /\ user' = user)
       /\ (res[i].pc = "reGetDoc" /\ activates =>
             /\ e = d
             /\ user'.coins = d.coins /\ d.coins # Undefined
             /\ user'.isPremium = d.isPremium /\ d.isPremium # Undefined)
       /\ (res[i].pc = "setDoc" /\ activates =>
             /\ e.exists
             /\ e.coins = Some(AUTH_START_COINS)
             /\ e.isPremium = Some(FALSE)
             /\ user'.coins = e.coins
             /\ user'.isPremium = e.isPremium)]_vars

\* C9 witness: a document that lacked coins and marked the user premium was
\* backfilled with 100 coins, kept isPremium, and its profile is active
C9_Witness ==
  /\ user # NoUser /\ ~user.isGuest
  /\ paid = 0
  /\ \A i \in UnlockIds : unlocks[i].pc = "idle"
  /\ user.coins = Some(AUTH_START_COINS)
  /\ user.isPremium = Some(TRUE)
  /\ remote[user.uid.n].coins = Some(AUTH_START_COINS)
  /\ remote[user.uid.n].isPremium = Some(TRUE)
  /\ remote[user.uid.n].lastLogin = NewDate

\* C10 (as stated): when a document read or write of the auth callback
\* fails, the app holds an active guest profile.
C10_FailureDegradesToGuest ==
  [][event' = "auth callback rejected" =>
       user' # NoUser /\ user'.isGuest]_vars

\* C11: a failing or cancelled sign-in, and a failing sign-out, only log the
\* error: the active profile, the local guest record, the remote store, the
\* signed-in identity and every running handler stay as they are.
C11_FailedSignInChangesNothing ==
  [][event' \in {"Authentication error logged", "Sign out error logged"} =>
       /\ user' = user /\ local' = local /\ remote' = remote
       /\ authUser' = authUser
       /\ ops' = ops /\ res' = res /\ unlocks' = unlocks
       /\ isAppStarted' = isAppStarted
       /\ isPremiumPageOpen' = isPremiumPageOpen]_vars

\* C11 witness: a guest holding a local record has just had a sign-in fail
C11_Witness ==
  /\ event = "Authentication error logged"
  /\ user # NoUser /\ user.isGuest /\ local = user
  /\ authUser = 0

\* C12 (as stated): the sign-out of a signed-in identity activates a newly
\* synthesized guest profile (guest, not premium, 10 coins, a new id) and
\* stores it as the local guest record.
C12_SignOutGivesFreshGuest ==
  [][authUser # 0 /\ authUser' = 0 =>
       /\ now' > now
       /\ user' = [uid |-> [kind |-> "guest", n |-> now'],
                   displayName |-> "Guest", email |-> NullStr,
                   photoURL |-> NullStr, coins |-> Some(10),
                   isGuest |-> TRUE, isPremium |-> Some(FALSE)]
       /\ local' = user']_vars

\* C13: the first auth event without an identity activates the stored guest
\* record as it is, leaving it in local storage, or, when there is none, a
\* new guest profile with 10 coins that is not premium, stored locally too.
C13_StartupGuestResolution ==
  [][~subscribed /\ subscribed' /\ authUser = 0 =>
       /\ user' # NoUser
       /\ local' = user'
       /\ IF local # NoItem
          THEN user' = local
          ELSE /\ user'.isGuest
               /\ user'.coins = Some(10)
               /\ user'.isPremium = Some(FALSE)
               /\ user'.uid = [kind |-> "guest", n |-> now']]_vars

\* C13 witness: a stored guest record with 5 coins was loaded on startup
C13_WitnessLoaded ==
  /\ subscribed /\ authUser = 0 /\ now = 0 /\ paid = 0
  /\ user # NoUser /\ user.isGuest /\ user.coins = Some(5)
  /\ local = user

\* C14: while no profile is active no paid panel is mounted, no paid
\* operation is running and none has been charged.
C14_NoPaidOperationBeforeResolution ==
  user = NoUser =>
    /\ ~MainUI
    /\ ~PanelMounted("image") /\ ~PanelMounted("video")
    /\ \A i \in OpIds : ops[i].pc = "idle"
    /\ paid = 0

\* C14 witness: the landing page was left while the first profile load is
\* still pending
C14_Witness ==
  /\ user = NoUser /\ isAppStarted
  /\ \E i \in ResIds : res[i].pc = "getDoc"

\* a fraction is less than another / equal to the integer quotient a / b
FracLess(x, y) == x.num * y.den < y.num * x.den
FracIs(x, a, b) == x.num * b = a * x.den

\* C15: an extraction that returns for a video of valid duration d and a
\* frame count N >= 1 returns exactly N frames, frame i (from 0) taken at
\* time i * d / N: the times start at 0, increase strictly, stay below d and
\* are in the order of capture, one seek and one progress call per frame.
C15_FramesEvenlySpaced ==
  fx.pc = "done" /\ fx.frameCount >= 1 =>
    LET N == fx.frameCount
        d == fx.duration.v
    IN
    /\ IsFinite(fx.duration) /\ d > 0
    /\ Len(fx.result) = N
    /\ Len(fx.seeks) = N /\ Len(fx.progress) = N
    /\ \A k \in 1..N :
         /\ FracIs(fx.result[k], (k - 1) * d, N)
         /\ fx.result[k] = fx.seeks[k]
         /\ FracLess(fx.result[k], [num |-> d, den |-> 1])
    /\ FracIs(fx.result[1], 0, 1)
    /\ \A k \in 1..(N - 1) : FracLess(fx.result[k], fx.result[k + 1])

\* C15 witness: three frames of a two-second video were returned
C15_Witness ==
  /\ fx.pc = "done" /\ fx.frameCount = 3 /\ fx.duration = Num(2)
  /\ Len(fx.result) = 3

\* C16: with a duration that is zero, negative, NaN or infinite the
\* extraction fails with the duration error and has issued no seek, captured
\* no frame and called onProgress not once; an extraction that seeks,
\* encodes or returns has a finite positive duration.
C16_InvalidDurationFailsFirst ==
  /\ fx.pc \in {"seeking", "encoding", "done"} =>
       IsFinite(fx.duration) /\ fx.duration.v > 0
  /\ fx.pc = "failed" /\ fx.error # MetadataErrorMessage
       /\ (~IsFinite(fx.duration) \/ fx.duration.v <= 0) =>
         /\ fx.error = DurationErrorMessage
         /\ fx.seeks = <<>> /\ fx.frames = <<>> /\ fx.progress = <<>>
         /\ fx.result = <<>>

\* C16 witness: an extraction failed on a video element reporting Infinity
C16_Witness ==
  /\ fx.pc = "failed" /\ fx.duration = PlusInfinity
  /\ fx.error = DurationErrorMessage /\ fx.seeks = <<>>

\* C17: the object URL of a File source is released exactly once when the
\* method is left, by whichever way, and not before; for a URL source no
\* object URL is created and none is released.
C17_ObjectUrlReleasedOnce ==
  /\ fx.created = (IF fx.isFile /\ fx.pc # "idle" THEN 1 ELSE 0)
  /\ fx.pc \in {"done", "failed"} => fx.revoked = fx.created
  /\ fx.pc \notin {"done", "failed"} => fx.revoked = 0

\* C17 witness: a File source failed on a seek and its object URL is released
C17_Witness ==
  /\ fx.pc = "failed" /\ fx.isFile /\ fx.error = SeekErrorMessage
  /\ fx.created = 1 /\ fx.revoked = 1

\* handleSubmit call k is made in this step
Submits(k) == chat.calls = k - 1 /\ chat'.calls = k

\* request r is settled in this step
Completes(r) == r \in chat.reqs /\ r \notin chat'.reqs

\* the turns of history h are in the order of their calls, the user turn
\* of a call before its reply
InCallOrder(h) ==
  \A a, b \in 1..Len(h) :
    a < b => /\ h[a].call <= h[b].call
             /\ (h[a].call = h[b].call => h[a].role = "user")

\* no two requests under way on one Chat object
OneRequestPerChat ==
  \A r1, r2 \in chat.reqs : r1.chat = r2.chat => r1 = r2

\* a submit appends its user turn, then sends its request
SubmitAppendsUserTurn ==
  [][ \A k \in 1..MaxCalls :
        Submits(k) =>
          /\ chat'.history = Append(chat.history, UserMessage(k))
          /\ \E r \in chat'.reqs \ chat.reqs :
               r.call = k /\ r.chat = chat.chatRef ]_allVars

\* what is shown and what is stored stay in call order
HistoriesInCallOrder ==
  /\ InCallOrder(chat.history)
  /\ \A s \in Styles : InCallOrder(chat.stored[s])

\* C18: while a chat request is outstanding no second one is sent on its
\* conversation; a submit appends the user turn before sending the request,
\* and the completion of the request appends the model reply or the error
\* reply to the history (the one shown, or a stored one), so that the turns
\* are in call order.
C18_TurnsAppendedInCallOrder ==
  [][ /\ OneRequestPerChat'
      /\ \A k \in 1..MaxCalls :
           Submits(k) => chat'.history = Append(chat.history, UserMessage(k))
      /\ \A r \in chat.reqs :
           Completes(r) =>
             \E m \in {ModelMessage(r.call), ErrorMessage(r.call)} :
               \/ chat'.history = Append(chat.history, m)
               \/ \E s \in Styles :
                    chat'.stored[s] = Append(chat.stored[s], m)
      /\ InCallOrder(chat'.history) ]_allVars

\* the same, for the requests whose Chatbot is still mounted when they
\* are settled
RepliesAppendedWhileMounted ==
  [][ \A r \in chat.reqs :
        Completes(r) /\ chat.mounted /\ chat.inst = r.inst =>
          \E m \in {ModelMessage(r.call), ErrorMessage(r.call)} :
            /\ chat'.history = Append(chat.history, m)
            /\ ~chat'.loading ]_allVars

\* a reply has been appended behind its user turn
RepliedInOrder ==
  /\ Len(chat.history) = 2
  /\ chat.history[1] = UserMessage(1)
  /\ chat.history[2] = ModelMessage(1)

\* a request is under way whose Chatbot has been unmounted, and a new
\* Chatbot has sent a second request for the same stored history
TwoRequestsOneHistory ==
  /\ chat.mounted
  /\ Cardinality(chat.reqs) = 2
  /\ chat.history = <<UserMessage(1), UserMessage(2)>>

\* what stopConversation leaves: not conversing, no session handle, no
\* microphone stream, no input nodes, empty transcription buffers
AgentAtRest(a) ==
  /\ ~a.isConversing
  /\ a.sessionPromiseRef = 0
  /\ a.mediaStreamRef = 0
  /\ a.scriptProcessorRef = 0
  /\ a.mediaStreamSourceRef = 0
  /\ a.currentInputTranscription = ""
  /\ a.currentOutputTranscription = ""

\* the state of a, what the latest step did set aside
StateOf(a) == Quiet(a)

\* every invocation of stopConversation leaves the agent at rest, in a
\* state that one more invocation would not change
StopLeavesRest ==
  agent.stops > 0 =>
    /\ AgentAtRest(agent)
    /\ StateOf(StopConversation(agent)) = StateOf(agent)

\* C19: stopConversation is idempotent: invoked any number of times, before
\* a conversation was started or right after a stop, each invocation
\* completes without an error and leaves the state a single invocation
\* leaves (not conversing, no session handle, no microphone stream, no
\* connected nodes, empty transcription buffers).
C19_StopConversationIdempotent ==
  agent.stops > 0 =>
    /\ agent.rejected = <<>>
    /\ AgentAtRest(agent)
    /\ StateOf(StopConversation(agent)) = StateOf(agent)

\* stopConversation invoked twice in a row on a started conversation
StoppedTwice ==
  /\ agent.stops = 2
  /\ agent.inputContext[1] = "closed"
  /\ agent.stream[1] = "stopped"

\* C20: a successful paid operation of a signed-in profile without premium
\* applies exactly one increment of minus its cost to the document of that
\* profile, relative to what the document holds, and the balance in memory
\* is updated only once that increment is applied; the success of a guest
\* writes nothing remote and writes the new balance to the local guest
\* record.
C20_RemoteDebitIsOneIncrement ==
  [][ \A i \in OpIds :
        /\ (Charged(i) /\ ~ops[i].snap.isGuest =>
              LET n == ops[i].snap.uid.n
              IN  /\ ops[i].pc = "debit"
                  /\ remote[n].exists
                  /\ remote' = [remote EXCEPT ![n].coins =
                                  Some(DocCoins(remote[n]) - CostOf(ops[i].kind))]
                  /\ local' = local)
        /\ (Charged(i) /\ ops[i].snap.isGuest =>
              /\ remote' = remote
              /\ local' = [ops[i].snap EXCEPT !.coins =
                             Some(Coins(ops[i].snap) - CostOf(ops[i].kind))])
        /\ (ops[i].pc = "gen" /\ ops'[i].pc = "debit" =>
              /\ ~ops[i].snap.isGuest /\ ~IsPremium(ops[i].snap)
              /\ remote' = remote /\ user' = user /\ local' = local
              /\ paid' = paid) ]_vars

\* C20 witness: two operations of a signed-in profile that overlapped have
\* both been charged; the document holds the start balance minus both
\* prices, the balance in memory only minus one
C20_Witness ==
  /\ paid = 2 /\ ~InFlight
  /\ user # NoUser /\ ~user.isGuest /\ ~IsPremium(user)
  /\ remote[user.uid.n].exists
  /\ DocCoins(remote[user.uid.n]) = AUTH_START_COINS - IMAGE_COST - VIDEO_COST
  /\ Coins(user) # DocCoins(remote[user.uid.n])

\* C21: frame capture is strictly sequential: a seek is issued only when
\* every earlier seek has completed and its frame has been drawn, so at most
\* one seek is outstanding; a seek error fails the extraction, and a failed
\* extraction issues no further seek.
C21_CaptureIsSequential ==
  [][ /\ (fx'.seeks # fx.seeks /\ fx'.pc # "metadata" =>
            /\ fx'.seeks = Append(fx.seeks, fx'.seeks[Len(fx'.seeks)])
            /\ Len(fx'.frames) = Len(fx.seeks)
            /\ \A k \in 1..Len(fx.seeks) : fx'.frames[k].time = fx.seeks[k]
            /\ fx'.pc = "seeking")
      /\ Len(fx'.seeks) - Len(fx'.frames) =
           (IF fx'.pc = "seeking" \/ fx'.error = SeekErrorMessage
            THEN 1 ELSE 0)
      /\ (fx.pc = "seeking" /\ fx'.pc = "failed" =>
            /\ fx'.error = SeekErrorMessage
            /\ fx'.seeks = fx.seeks /\ fx'.frames = fx.frames
            /\ fx'.result = <<>>)
      /\ (fx.pc = "failed" => fx'.seeks = fx.seeks) ]_allVars

\* C21 witness: the second of three seeks has failed after the first frame
\* was drawn, and the extraction has failed with it
C21_Witness ==
  /\ fx.pc = "failed" /\ fx.error = SeekErrorMessage
  /\ fx.frameCount = 3
  /\ Len(fx.seeks) = 2 /\ Len(fx.frames) = 1
  /\ fx.frames[1].time = fx.seeks[1]

\* generateVideo has returned or failed
Terminated == gen.pc \in {"returned", "failed"}

\* C22: video generation polls its operation every 10 seconds for as long
\* as the completion flag is unset, and does not return or fail before the
\* flag is set unless a call fails; once the flag is set it polls no more
\* and returns a URL when a video URI is present, fails when none is; so it
\* terminates when the backend reports completion, and only then or when a
\* call fails.
C22_PollsUntilDone ==
  /\ [][ /\ (gen'.timer # 0 =>
               /\ gen'.timer = PollInterval
               /\ gen'.pc = "waiting" /\ ~gen'.operation.done)
         /\ (gen'.pc = "polling" /\ gen.pc # "polling" =>
               gen.pc = "waiting" /\ ~gen.operation.done)
         /\ (gen.pc = "waiting" /\ gen'.pc # "waiting" => gen'.pc = "polling")
         /\ (gen.operation.done => gen'.pc \notin {"waiting", "polling"})
         /\ (Terminated' /\ ~Terminated =>
               gen'.operation.done \/ gen'.error = CallFailedMessage)
         /\ (gen'.pc = "returned" =>
               /\ gen'.operation.done /\ gen'.operation.uri
               /\ gen'.result # "")
         /\ (gen'.error = NoUriMessage <=>
               gen'.operation.done /\ ~gen'.operation.uri) ]_allVars
  /\ (gen.backend.state = "done" /\ gen.polls < MaxPolls ~> Terminated)

\* C22 witness: the flag was unset at the start and at the first poll, set
\* at the second, and the video has been returned
C22_Witness ==
  /\ gen.pc = "returned" /\ gen.polls = 2
  /\ gen.operation.done /\ gen.operation.uri

\* the digits of a base64 text decoded to bytes, the inverse of btoa
RECURSIVE Atob(_)
Atob(t) ==
  IF Len(t) = 0 THEN <<>>
  ELSE LET b1 == t[1] * 4 + t[2] \div 16
           b2 == (t[2] % 16) * 16 + (IF t[3] = Pad THEN 0 ELSE t[3] \div 4)
           b3 == (IF t[3] = Pad THEN 0 ELSE (t[3] % 4) * 64)
                   + (IF t[4] = Pad THEN 0 ELSE t[4])
       IN  (IF t[3] = Pad THEN <<b1>>
            ELSE IF t[4] = Pad THEN <<b1, b2>>
            ELSE <<b1, b2, b3>>) \o Atob(SubSeq(t, 5, Len(t)))

\* sample k of the 16-bit little-endian PCM bytes b, as a signed value
PcmSample(b, k) ==
  LET u == b[2 * k - 1] + 256 * b[2 * k]
  IN  IF u >= 32768 THEN u - 65536 ELSE u

\* the sample s times 32768, truncated toward zero (s a finite number)
ScaledSample(s) ==
  IF 2 * (s.v \div 2) = s.v \/ s.v > 0 THEN s.v \div 2 ELSE s.v \div 2 + 1

\* C23: the encoder turns every sample s into the signed 16-bit integer
\* that is s * 32768 truncated toward zero and reduced modulo 2^16, without
\* clamping: a scaled value in -32768..32767 is kept, a value outside
\* wraps (1.0 gives -32768); the output holds exactly one 16-bit sample for
\* every input sample, in the order of the input.
C23_EncoderWrapsWithoutClamping ==
  enc.pc = "sent" =>
    LET bytes == Atob(enc.blob.data)
    IN  /\ Len(bytes) = 2 * Len(enc.input)
        /\ \A k \in 1..Len(enc.input) :
             LET s == enc.input[k]
                 w == PcmSample(bytes, k)
             IN  /\ w \in -32768..32767
                 /\ IsFinite(s) =>
                      /\ (w - ScaledSample(s)) % 65536 = 0
                      /\ (ScaledSample(s) \in -32768..32767
                            => w = ScaledSample(s))
                      /\ (s = Num(65536) => w = -32768)

\* C23 witness: the samples 1.0 and -0.5 have been encoded, as -32768 and
\* -16384
C23_Witness ==
  /\ enc.pc = "sent"
  /\ enc.input = <<Num(65536), Num(-32768)>>
  /\ Atob(enc.blob.data) = <<0, 128, 0, 192>>

\* C24: once the isPremium flag of the active profile is true it does not
\* become false again for that profile, in memory, in the local guest
\* record or in the remote document, also when a paid operation started
\* before the unlock completes after it; and such an operation does not
\* debit the premium profile.
C24_PremiumNeverReverts ==
  [][ /\ (user # NoUser /\ user' # NoUser /\ user'.uid = user.uid
            /\ IsPremium(user) => IsPremium(user'))
      /\ (local # NoItem /\ local' # NoItem /\ local'.uid = local.uid
            /\ IsPremium(local) => IsPremium(local'))
      /\ \A n \in Uids :
           remote[n].exists /\ remote'[n].exists /\ IsPremium(remote[n])
             => IsPremium(remote'[n])
      /\ \A i \in OpIds :
           Finishes(i) /\ user # NoUser /\ IsPremium(user)
             /\ ops[i].snap.uid = user.uid
             => paid' = paid /\ remote' = remote ]_vars

\* an invocation of the auth callback is suspended at a document call
Resolving == \E i \in ResIds : res[i].pc # "idle"

\* the active profile is the one of the authentication state
Corresponds ==
  /\ user # NoUser
  /\ IF authUser # 0
     THEN ~user.isGuest /\ local = NoItem
     ELSE user.isGuest

\* an invocation of the auth callback runs to its end in this step
ResolutionCompletes ==
  \/ \E i \in ResIds :
       res[i].pc # "idle" /\ res'[i].pc = "idle"
         /\ event' # "auth callback rejected"
  \/ authUser' = 0 /\ subscribed' /\ (authUser # 0 \/ ~subscribed)

\* C25: once resolution has completed the active profile corresponds to
\* the authentication state (signed in: isGuest false and no local guest
\* record; signed out: a guest), and it keeps doing so until the
\* authentication state changes, also when a paid operation started under
\* the previous session completes.
C25_ProfileMatchesAuthState ==
  [][ /\ ~Resolving' /\ subscribed'
      /\ \/ ResolutionCompletes
         \/ ~Resolving /\ subscribed /\ Corresponds /\ authUser' = authUser
      => Corresponds' ]_vars

\* C26: when several changes of the authentication state are reported
\* before the profile load of an earlier one has completed, then once every
\* invocation of the auth callback has finished the active profile and the
\* local guest record are those of the state reported last.
C26_LatestAuthStateWins ==
  [][ ~Resolving' /\ subscribed' /\ ResolutionCompletes
        => /\ Corresponds'
           /\ (authUser' = 0 => local' = user') ]_vars

\* C27: for a signed-in profile, whenever no paid operation and no premium
\* unlock is in flight (and no profile load), the coin balance in memory is
\* the one of the remote document, also after operations of different
\* panels that overlapped and after a premium unlock.
C27_MemoryMirrorsRemote ==
  (subscribed /\ user # NoUser /\ ~user.isGuest /\ authUser = user.uid.n
     /\ ~InFlight /\ ~Resolving /\ remote[user.uid.n].exists)
    => user.coins = remote[user.uid.n].coins

\* a panel calls generateVideo: VideoGenerator (158) or VideoEditor (562, 567)
GeneratorRequests(i) ==
  ops[i].pc = "idle" /\ ops'[i].pc = "gen" /\ ops'[i].kind = "video"
EditorRequests(i) == editor.runs[i].pc # "gen" /\ editor'.runs[i].pc = "gen"
\* the awaited video arrives and the handler goes on after its await
GeneratorSucceeds(i) ==
  /\ ops[i].kind = "video" /\ ops[i].pc = "gen" /\ ops'[i].pc # "gen"
  /\ event' # "error caught by handleSubmit"
EditorSucceeds(i) ==
  /\ editor.runs[i].pc = "gen" /\ editor'.runs[i].pc = "idle"
  /\ event' # "error caught by handleSubmit"
\* the 20 coins are taken from the balance, or the write that takes them
\* from the document is issued
Debits(u) ==
  \/ user' # NoUser /\ Coins(user') = Coins(u) - VIDEO_COST
  \/ \E i \in OpIds : ops[i].pc = "gen" /\ ops'[i].pc = "debit"

\* C28: whichever panel sends a video-generation request to the gateway for
\* a non-premium profile, the profile holds at least 20 coins when the
\* request is sent and, when the video arrives, 20 coins are debited.
C28_VideoRequestsArePaid ==
  [][ /\ \A i \in OpIds :
           GeneratorRequests(i) /\ ~IsPremium(user)
             => Coins(user) >= VIDEO_COST
      /\ \A i \in EditIds :
           EditorRequests(i) /\ ~IsPremium(user)
             => Coins(user) >= VIDEO_COST
      /\ \A i \in OpIds :
           GeneratorSucceeds(i) /\ ~IsPremium(ops[i].snap)
             => Debits(ops[i].snap)
      /\ \A i \in EditIds :
           EditorSucceeds(i) /\ ~IsPremium(user) => Debits(user) ]_allVars

\* a start of the live agent is in progress: the microphone is being asked
\* for, or the connection asked for by the start is not yet made
StartInProgress(a) ==
  a.pending # {} \/ \E k \in StartIds : a.session[k] = "connecting"

\* the processor of start k hands microphone audio to the session handle
SendsAudio(a, k) ==
  /\ <<"processor", k>> \in a.connected
  /\ a.stream[k] = "live"
  /\ a.inputContext[k] = "running"
  /\ a.sessionPromiseRef # 0
  /\ a.session[a.sessionPromiseRef] = "open"

\* every microphone stream is stopped, every session is closed or told to
\* close, no input node is connected, no audio goes to the gateway
Released(a) ==
  /\ \A k \in StartIds : a.stream[k] # "live"
  /\ \A k \in StartIds : a.session[k] \notin {"connecting", "open"}
  /\ a.connected = {}
  /\ \A k \in StartIds : ~SendsAudio(a, k)

\* C29: whenever the live agent is not conversing and no start is in
\* progress, the microphone stream, the live session and the audio nodes
\* are released and no audio is sent, whether the conversation ended by
\* Stop (also pressed while connecting), by the remote end or by an error;
\* and a conversation is only started from that released state.
C29_IdleAgentHoldsNothing ==
  /\ [](~agent.isConversing /\ ~StartInProgress(agent) => Released(agent))
  /\ [][agent'.starts # agent.starts => Released(agent)]_allVars

\* the turns of h alternate user, model from a user turn on, each model
\* turn right after the user turn of its own call
Alternates(h) ==
  \A i \in 1..Len(h) :
    IF i % 2 = 1 THEN h[i].role = "user"
    ELSE h[i].role = "model" /\ h[i - 1] = UserMessage(h[i].call)

\* the completion of request r appends its reply to the history shown
AppendsReply(r) == Completes(r) /\ chat'.history # chat.history

\* C30: in a chat history every model turn comes right after the user turn
\* it answers (user and model turns alternate from a user turn on), and a
\* reply is appended only to the history of the conversation and style its
\* request was sent in, also when New Chat is pressed or the style is
\* changed while the request is outstanding.
C30_RepliesFollowTheirPrompts ==
  [][ /\ \A r \in chat.reqs :
           AppendsReply(r) =>
             /\ chat.chatRef = r.chat
             /\ chat.history # <<>>
             /\ chat.history[Len(chat.history)] = UserMessage(r.call)
      /\ Alternates(chat'.history)
      /\ \A s \in Styles : Alternates(chat'.stored[s]) ]_allVars

====
